---- MODULE Spec2Model ----
(***************************************************************************)
(* Model of the DataNaut portal's tabular import engine:                   *)
(*   - portal/datahub_validation.py : normalize_header, the value parsers, *)
(*     DatasetSpec, validate_rows;                                         *)
(*   - portal/views.py : the Data Hub importers (_import_vendors, ...),    *)
(*     each a transaction.atomic block called from data_import.            *)
(*                                                                         *)
(* Python strings are sequences of one-character strings, so that the      *)
(* conversions (strip, lower, header normalisation, decimal parsing) are   *)
(* computed and not assumed.  Python values are tagged records.            *)
(***************************************************************************)
EXTENDS Integers, Sequences, FiniteSets, TLC

VARIABLES
    pc,              \* validate_rows: "start" before the call, "done" after
    spec,            \* validate_rows: the DatasetSpec argument
    headers_in_file, \* validate_rows: the headers argument
    raw_rows,        \* validate_rows: the raw_rows argument
    result,          \* validate_rows: the ValidationResult returned
    entity,          \* Data Hub: the entity key of the import page in use
    request,         \* Data Hub: the POST being handled (rows read, user)
    response,        \* Data Hub: the flash message the handler left
    vendors,         \* table portal_vendor, in primary-key order
    cost_centers,    \* table portal_costcenter
    services,        \* table portal_service
    contracts,       \* table portal_contract
    invoices,        \* table portal_invoice
    call,            \* helpers: the helper function called and its argument
    returned,        \* helpers: what the call returned or raised
    upload,          \* readers: the uploaded file (name, ?format=, content)
    read_result,     \* readers: what the table reader returned or raised
    conn,            \* concurrent requests: each client's database connection
    task,            \* concurrent requests: the handler each client runs, its locals
    prov,            \* tables auth_user, portal_userprofile, portal_serviceassignment,
                     \* portal_provisioningrequest
    session,         \* each client's login and session data
    now              \* the number of requests posted so far

validate_vars == <<spec, headers_in_file, raw_rows, result>>
tables == <<vendors, cost_centers, services, contracts, invoices>>
import_vars == <<entity, request, response, tables>>
helper_vars == <<call, returned>>
reader_vars == <<upload, read_result>>
conc_vars == <<conn, task, prov, session, now>>
vars == <<pc, validate_vars, import_vars, helper_vars, reader_vars, conc_vars>>

(***************************************************************************)
(* Bounds                                                                  *)
(***************************************************************************)
MaxRows == 2         \* data rows in one uploaded file

(***************************************************************************)
(* Python values                                                           *)
(***************************************************************************)
None_ == [t |-> "None"]
Str(s) == [t |-> "str", s |-> s]
\* Decimal: sign * coeff * 10^(-scale)
Dec(sign, coeff, scale) == [t |-> "Decimal", sign |-> sign, coeff |-> coeff, scale |-> scale]
\* an exception escaping a call: its message text and the value it quotes
Raise(text, arg) == [t |-> "raise", text |-> text, arg |-> arg]

\* a local name for a value: Body applied to v
Bind(v, Body(_)) == Body(v)

IsNone(v) == v.t = "None"
IsStr(v) == v.t = "str"
IsRaise(v) == v.t = "raise"

(***************************************************************************)
(* Characters and str methods                                              *)
(***************************************************************************)
BOM == "BOM"                       \* U+FEFF
Whitespace == {" ", "\t", "\n", "\r"}
Digits == {"0", "1", "2", "3", "4", "5", "6", "7", "8", "9"}
UpperOf ==
    [c \in {"a","b","c","d","e","f","g","h","i","j","k","l","m","n","o","p",
            "q","r","s","t","u","v","w","x","y","z"} |->
        CASE c = "a" -> "A" [] c = "b" -> "B" [] c = "c" -> "C" [] c = "d" -> "D"
          [] c = "e" -> "E" [] c = "f" -> "F" [] c = "g" -> "G" [] c = "h" -> "H"
          [] c = "i" -> "I" [] c = "j" -> "J" [] c = "k" -> "K" [] c = "l" -> "L"
          [] c = "m" -> "M" [] c = "n" -> "N" [] c = "o" -> "O" [] c = "p" -> "P"
          [] c = "q" -> "Q" [] c = "r" -> "R" [] c = "s" -> "S" [] c = "t" -> "T"
          [] c = "u" -> "U" [] c = "v" -> "V" [] c = "w" -> "W" [] c = "x" -> "X"
          [] c = "y" -> "Y" [] c = "z" -> "Z"]
LowerLetters == DOMAIN UpperOf
UpperLetters == {UpperOf[c] : c \in LowerLetters}
LowerOf == [c \in UpperLetters |-> CHOOSE l \in LowerLetters : UpperOf[l] = c]

\* Cyrillic letters of the texts the decoders produce: capital A, I, ER and
\* their small forms, small DJE, small YA
CYRILLIC_UPPER == {"U+0410", "U+0418", "U+0420"}
CYRILLIC_LOWER == {"U+0430", "U+0438", "U+0440", "U+0452", "U+044F"}
CyrillicLowerOf(c) ==
    CASE c = "U+0410" -> "U+0430" [] c = "U+0418" -> "U+0438" [] c = "U+0420" -> "U+0440"

\* str.lower() on one character
LowerChar(c) ==
    IF c \in UpperLetters THEN LowerOf[c]
    ELSE IF c \in CYRILLIC_UPPER THEN CyrillicLowerOf(c) ELSE c

\* U+2102 DOUBLE-STRUCK CAPITAL C: an uppercase letter (category Lu) that has
\* no lowercase form, so str.lower() leaves it; one of 471 such characters
DOUBLE_STRUCK_C == "U+2102"

\* str.isupper() on one character
IsUpperChar(c) == c \in UpperLetters \cup CYRILLIC_UPPER \cup {DOUBLE_STRUCK_C}

\* regex \w on one character
WordChars == LowerLetters \cup UpperLetters \cup Digits \cup {"_", DOUBLE_STRUCK_C}
             \cup CYRILLIC_UPPER \cup CYRILLIC_LOWER
IsWordChar(c) == c \in WordChars

Lower(s) == [i \in 1..Len(s) |-> LowerChar(s[i])]

RECURSIVE LStrip(_, _)
LStrip(s, chars) ==
    IF s # <<>> /\ Head(s) \in chars THEN LStrip(Tail(s), chars) ELSE s

RECURSIVE RStrip(_, _)
RStrip(s, chars) ==
    IF s # <<>> /\ s[Len(s)] \in chars THEN RStrip(SubSeq(s, 1, Len(s) - 1), chars) ELSE s

\* str.strip(chars); str.strip() is Strip(s, Whitespace)
Strip(s, chars) == RStrip(LStrip(s, chars), chars)

\* str.replace(c, "") for a single character c
RECURSIVE RemoveChar(_, _)
RemoveChar(s, c) ==
    IF s = <<>> THEN <<>>
    ELSE IF Head(s) = c THEN RemoveChar(Tail(s), c)
    ELSE <<Head(s)>> \o RemoveChar(Tail(s), c)

\* str.replace(c, d) for single characters c, d
ReplaceChar(s, c, d) == [i \in 1..Len(s) |-> IF s[i] = c THEN d ELSE s[i]]

Contains(s, c) == \E i \in 1..Len(s) : s[i] = c

(***************************************************************************)
(* datahub_validation.py: header normaliser and value parsers              *)
(***************************************************************************)
\* _HEADER_SEP_RE = [\s\-]+
HeaderSeps == Whitespace \cup {"-"}
IsHeaderSep(c) == c \in HeaderSeps

\* _HEADER_SEP_RE.sub("_", h): every maximal run of separators becomes one "_"
RECURSIVE SubHeaderSep(_)
SubHeaderSep(s) ==
    IF s = <<>> THEN <<>>
    ELSE IF IsHeaderSep(Head(s))
         THEN <<"_">> \o SubHeaderSep(LStrip(s, HeaderSeps))
         ELSE <<Head(s)>> \o SubHeaderSep(Tail(s))

\* re.sub(r"[^\w_]", "", h)
RECURSIVE RemoveNonWord(_)
RemoveNonWord(s) ==
    IF s = <<>> THEN <<>>
    ELSE IF IsWordChar(Head(s)) THEN <<Head(s)>> \o RemoveNonWord(Tail(s))
    ELSE RemoveNonWord(Tail(s))

\* normalize_header without the final strip("_")
normalize_headerKeepUnderscores(h) ==
    IF IsNone(h) THEN <<>>
    ELSE RemoveNonWord(SubHeaderSep(RemoveChar(Lower(Strip(h.s, Whitespace)), BOM)))

\* normalize_header(h) for a Python value h (None or str); returns the characters
normalize_header(h) ==
    IF IsNone(h) THEN <<>>
    ELSE LET h1 == Lower(Strip(h.s, Whitespace))
             h2 == RemoveChar(h1, BOM)
             h3 == SubHeaderSep(h2)
             h4 == RemoveNonWord(h3)
         IN  Strip(h4, {"_"})

DigitValue(c) ==
    CASE c = "0" -> 0 [] c = "1" -> 1 [] c = "2" -> 2 [] c = "3" -> 3 [] c = "4" -> 4
      [] c = "5" -> 5 [] c = "6" -> 6 [] c = "7" -> 7 [] c = "8" -> 8 [] c = "9" -> 9

RECURSIVE DigitsToInt(_)
DigitsToInt(s) ==
    IF s = <<>> THEN 0 ELSE 10 * DigitsToInt(SubSeq(s, 1, Len(s) - 1)) + DigitValue(s[Len(s)])

AllDigits(s) == \A i \in 1..Len(s) : s[i] \in Digits

\* decimal.Decimal(s) for a str s over digits, sign, point, underscore and other
\* characters (exponent forms and the words Infinity/NaN are outside the input
\* alphabet).  Returns a Decimal or "invalid" (decimal.InvalidOperation).
DecimalOf(s) ==
    Bind(RemoveChar(Strip(s, Whitespace), "_"), LAMBDA u :
    Bind(u # <<>> /\ Head(u) \in {"+", "-"}, LAMBDA signed :
    Bind(IF signed THEN Tail(u) ELSE u, LAMBDA body :
    Bind({i \in 1..Len(body) : body[i] = "."}, LAMBDA dots :
    Bind(IF dots = {} THEN body
         ELSE SubSeq(body, 1, (CHOOSE i \in dots : TRUE) - 1), LAMBDA ip :
    Bind(IF dots = {} THEN <<>>
         ELSE SubSeq(body, (CHOOSE i \in dots : TRUE) + 1, Len(body)), LAMBDA fp :
        IF Cardinality(dots) <= 1 /\ AllDigits(ip) /\ AllDigits(fp) /\ Len(ip) + Len(fp) >= 1
        THEN Dec(IF signed /\ Head(u) = "-" THEN -1 ELSE 1, DigitsToInt(ip \o fp), Len(fp))
        ELSE [t |-> "invalid"]))))))

EMDASH == "EMDASH"                 \* U+2014

\* parse_decimal with every "," rewritten to ".", whether or not a "." is there
parse_decimalCommaIsPoint(value) ==
    IF IsNone(value) THEN None_
    ELSE IF value.t = "Decimal" THEN value
    ELSE LET s == Strip(value.s, Whitespace)
         IN IF s = <<>> \/ s = <<EMDASH>> \/ s = <<"-">> THEN None_
            ELSE LET d == DecimalOf(ReplaceChar(RemoveChar(s, " "), ",", "."))
                 IN IF d.t = "invalid" THEN Raise("Invalid decimal", value) ELSE d

\* parse_decimal(value) for a Python value that is None, a str or a Decimal
parse_decimal(value) ==
    IF IsNone(value) THEN None_
    ELSE IF value.t = "Decimal" THEN value
    ELSE LET s == Strip(value.s, Whitespace)
         IN IF s = <<>> \/ s = <<EMDASH>> \/ s = <<"-">> THEN None_
            ELSE LET s1 == RemoveChar(s, " ")
                     s2 == IF Contains(s1, ",") /\ Contains(s1, ".")
                           THEN RemoveChar(s1, ",")
                           ELSE ReplaceChar(s1, ",", ".")
                     d == DecimalOf(s2)
                 IN IF d.t = "invalid" THEN Raise("Invalid decimal", value) ELSE d

\* parse_str(value) for a Python value that is None or a str
parse_str(value) ==
    IF IsNone(value) THEN Str(<<>>) ELSE Str(Strip(value.s, Whitespace))

(***************************************************************************)
(* datahub_validation.py: the validation engine                            *)
(***************************************************************************)
\* A Python dict with str keys is a function; {} is the function of no key.
EmptyDict == [k \in {} |-> None_]
DictSet(d, k, v) == [x \in DOMAIN d \cup {k} |-> IF x = k THEN v ELSE d[x]]
\* dict.get(k) with the default None
DictGet(d, k) == IF k \in DOMAIN d THEN d[k] ELSE None_

\* A header map given as pairs <<normalized header, internal field>>
HeaderMap(pairs) ==
    [k \in {p[1] : p \in pairs} |-> (CHOOSE p \in pairs : p[1] = k)[2]]

ValidationErrorItem(row, column, message) ==
    [row |-> row, column |-> column, message |-> message]

\* str(e) of the exception a converter raised
ExceptionMessage(e) == [text |-> e.text, arg |-> e.arg]
RequiredMissing == [text |-> "Required value is missing.", arg |-> None_]
UnknownColumnsWarning(cols) ==
    [text |-> "Unknown columns will be ignored", cols |-> cols, field |-> ""]
MissingColumnWarning(req) ==
    [text |-> "Missing required column (or alias) in file", cols |-> {}, field |-> req]

\* COST_CENTERS_SPEC
COST_CENTERS_SPEC ==
    [key |-> "cost_centers",
     header_map |-> HeaderMap({
        <<<<"c", "o", "d", "e">>, "code">>,
        <<<<"c", "o", "s", "t", "_", "c", "e", "n", "t", "e", "r", "_", "c", "o", "d", "e">>, "code">>,
        <<<<"c", "o", "s", "t", "c", "e", "n", "t", "r", "e", "_", "c", "o", "d", "e">>, "code">>,
        <<<<"c", "o", "s", "t", "_", "c", "e", "n", "t", "e", "r">>, "code">>,
        <<<<"n", "a", "m", "e">>, "name">>,
        <<<<"c", "o", "s", "t", "_", "c", "e", "n", "t", "e", "r", "_", "n", "a", "m", "e">>, "name">>,
        <<<<"b", "u", "s", "i", "n", "e", "s", "s", "_", "u", "n", "i", "t">>, "business_unit">>,
        <<<<"b", "u">>, "business_unit">>,
        <<<<"r", "e", "g", "i", "o", "n">>, "region">>,
        <<<<"d", "e", "f", "a", "u", "l", "t", "_", "a", "p", "p", "r", "o", "v", "e", "r">>, "default_approver">>,
        <<<<"d", "e", "f", "a", "u", "l", "t", "_", "a", "p", "p", "r", "o", "v", "e", "r", "_", "u", "s", "e", "r", "n", "a", "m", "e">>, "default_approver">>}),
     converters |-> [f \in {"code", "name", "business_unit", "region", "default_approver"}
                        |-> "parse_str"],
     required |-> <<"code", "name">>,
     allow_unknown_columns |-> TRUE]

\* A DatasetSpec a caller may build from the same dataclass: a required decimal
\* field with two aliases, a required field with no converter (the identity is
\* used), allow_unknown_columns switched off.
AMOUNTS_SPEC ==
    [key |-> "amounts",
     header_map |-> HeaderMap({
        <<<<"a", "m", "o", "u", "n", "t">>, "amount">>,
        <<<<"t", "o", "t", "a", "l">>, "amount">>,
        <<<<"r", "e", "f">>, "ref">>}),
     converters |-> [f \in {"amount"} |-> "parse_decimal"],
     required |-> <<"amount", "ref">>,
     allow_unknown_columns |-> FALSE]

\* spec.converters.get(internal, lambda x: x) applied to raw_val
Convert(sp, internal, raw_val) ==
    IF internal \notin DOMAIN sp.converters THEN raw_val
    ELSE IF sp.converters[internal] = "parse_str" THEN parse_str(raw_val)
    ELSE parse_decimal(raw_val)

\* normalized_file_headers
NormalizedFileHeaders(hs) ==
    LET keep == SelectSeq(hs, LAMBDA h : ~IsNone(h))
    IN  [i \in 1..Len(keep) |-> normalize_header(keep[i])]

\* (mutant) the header map is asked with the raw header, not the normalized one
MappedInternalFieldsRawLookup(sp, hs) ==
    LET keep == SelectSeq(hs, LAMBDA h : ~IsNone(h))
    IN  {sp.header_map[keep[i].s] : i \in {j \in 1..Len(keep) : keep[j].s \in DOMAIN sp.header_map}}

\* mapped_internal_fields
MappedInternalFields(sp, hs) ==
    LET n == NormalizedFileHeaders(hs)
    IN  {sp.header_map[n[i]] : i \in {j \in 1..Len(n) : n[j] \in DOMAIN sp.header_map}}

\* (mutant) the "if h_norm:" test is dropped: blank headers count as unknown
UnknownColsWithBlank(sp, hs) ==
    LET n == NormalizedFileHeaders(hs)
    IN  {n[i] : i \in {j \in 1..Len(n) : n[j] \notin DOMAIN sp.header_map}}

\* unknown_cols (as the set the warning joins)
UnknownCols(sp, hs) ==
    LET n == NormalizedFileHeaders(hs)
    IN  {n[i] : i \in {j \in 1..Len(n) : n[j] \notin DOMAIN sp.header_map /\ n[j] # <<>>}}

\* the warnings for required fields no header maps to, in spec.required order
RECURSIVE MissingColumnWarnings(_, _)
MissingColumnWarnings(required, mapped) ==
    IF required = <<>> THEN <<>>
    ELSE (IF Head(required) \notin mapped THEN <<MissingColumnWarning(Head(required))>> ELSE <<>>)
         \o MissingColumnWarnings(Tail(required), mapped)

BatchWarnings(sp, hs) ==
    (IF UnknownCols(sp, hs) # {} /\ ~sp.allow_unknown_columns
     THEN <<UnknownColumnsWarning(UnknownCols(sp, hs))>> ELSE <<>>)
    \o MissingColumnWarnings(sp.required, MappedInternalFields(sp, hs))

\* (mutant) a field already filled by an earlier column is kept
ConvertColumnFirstAlias(sp, idx, item, st) ==
    LET k_norm == normalize_header(item[1])
    IN  IF k_norm = <<>> THEN st
        ELSE IF k_norm \notin DOMAIN sp.header_map THEN st
        ELSE LET internal == sp.header_map[k_norm]
                 v == Convert(sp, internal, item[2])
             IN  IF IsRaise(v)
                 THEN [st EXCEPT !.errors =
                          Append(@, ValidationErrorItem(idx, internal, ExceptionMessage(v)))]
                 ELSE IF internal \in DOMAIN st.clean THEN st
                 ELSE [st EXCEPT !.clean = DictSet(@, internal, v)]

\* (mutant) a failed conversion also stores None under the field
ConvertColumnPlaceholder(sp, idx, item, st) ==
    LET k_norm == normalize_header(item[1])
    IN  IF k_norm = <<>> THEN st
        ELSE IF k_norm \notin DOMAIN sp.header_map THEN st
        ELSE LET internal == sp.header_map[k_norm]
                 v == Convert(sp, internal, item[2])
             IN  IF IsRaise(v)
                 THEN [clean |-> DictSet(st.clean, internal, None_),
                       errors |-> Append(st.errors,
                                    ValidationErrorItem(idx, internal, ExceptionMessage(v)))]
                 ELSE [st EXCEPT !.clean = DictSet(@, internal, v)]

\* one pass of "for raw_key, raw_val in raw.items()"; st = [clean, errors]
ConvertColumn(sp, idx, item, st) ==
    LET k_norm == normalize_header(item[1])
    IN  IF k_norm = <<>> THEN st
        ELSE IF k_norm \notin DOMAIN sp.header_map THEN st
        ELSE LET internal == sp.header_map[k_norm]
                 v == Convert(sp, internal, item[2])
             IN  IF IsRaise(v)
                 THEN [st EXCEPT !.errors =
                          Append(@, ValidationErrorItem(idx, internal, ExceptionMessage(v)))]
                 ELSE [st EXCEPT !.clean = DictSet(@, internal, v)]

RECURSIVE ConvertColumns(_, _, _, _)
ConvertColumns(sp, idx, items, st) ==
    IF items = <<>> THEN st
    ELSE ConvertColumns(sp, idx, Tail(items), ConvertColumn(sp, idx, Head(items), st))

\* (mutant) the value is compared with "" without strip()
IsBlankValueNoStrip(v) == IsNone(v) \/ (IsStr(v) /\ v.s = <<>>)

\* "v is None or (isinstance(v, str) and v.strip() == '')"
IsBlankValue(v) == IsNone(v) \/ (IsStr(v) /\ Strip(v.s, Whitespace) = <<>>)

\* "for req in spec.required": the required-value errors of one row
RECURSIVE RequiredErrors(_, _, _)
RequiredErrors(required, idx, clean) ==
    IF required = <<>> THEN <<>>
    ELSE (IF IsBlankValue(DictGet(clean, Head(required)))
          THEN <<ValidationErrorItem(idx, Head(required), RequiredMissing)>> ELSE <<>>)
         \o RequiredErrors(Tail(required), idx, clean)

\* (mutant) a row that produced errors is not appended to clean_rows
ValidateRowSkipInvalid(sp, idx, raw, acc) ==
    LET st == ConvertColumns(sp, idx, raw, [clean |-> EmptyDict, errors |-> acc.errors])
        errs == st.errors \o RequiredErrors(sp.required, idx, st.clean)
    IN  [clean_rows |-> IF Len(errs) > Len(acc.errors) THEN acc.clean_rows
                        ELSE Append(acc.clean_rows, st.clean),
         errors |-> errs]

\* the body of "for idx, raw in enumerate(raw_rows, start=1)"; acc = [clean_rows, errors]
ValidateRow(sp, idx, raw, acc) ==
    LET st == ConvertColumns(sp, idx, raw, [clean |-> EmptyDict, errors |-> acc.errors])
    IN  [clean_rows |-> Append(acc.clean_rows, st.clean),
         errors |-> st.errors \o RequiredErrors(sp.required, idx, st.clean)]

\* (mutant) fail-fast: the loop stops after the first row that produced an error
RECURSIVE RowLoopFailFast(_, _, _, _)
RowLoopFailFast(sp, rows, idx, acc) ==
    IF idx > Len(rows) \/ acc.errors # <<>> THEN acc
    ELSE RowLoopFailFast(sp, rows, idx + 1, ValidateRow(sp, idx, rows[idx], acc))

\* "for idx, raw in enumerate(raw_rows, start=1)"
RECURSIVE RowLoop(_, _, _, _)
RowLoop(sp, rows, idx, acc) ==
    IF idx > Len(rows) THEN acc
    ELSE RowLoop(sp, rows, idx + 1, ValidateRow(sp, idx, rows[idx], acc))

\* validate_rows(raw_rows, headers_in_file, spec)
validate_rows(rows, hs, sp) ==
    LET acc == RowLoop(sp, rows, 1, [clean_rows |-> <<>>, errors |-> <<>>])
    IN  [clean_rows |-> acc.clean_rows,
         errors |-> acc.errors,
         warnings |-> BatchWarnings(sp, hs),
         headers_in_file |-> hs]

(***************************************************************************)
(* Uploaded files handed to validate_rows                                  *)
(***************************************************************************)
\* raw cell values: None is an empty spreadsheet cell or a short CSV row
TextCells == {Str(<<>>), Str(<<" ">>), Str(<<" ", "a", "b">>)}
TextCellsOrNone == TextCells \cup {None_}
NumberCells == {Str(<<" ">>), Str(<<"1">>), Str(<<"a", "b">>), None_}
OptionalCells == {Str(<<>>), Str(<<" ", "a", "b">>)}

\* the files tried: the DatasetSpec, the header row, the values each column takes
Uploads ==
    { [spec |-> COST_CENTERS_SPEC,
       headers |-> <<Str(<<"c", "o", "d", "e">>), Str(<<"n", "a", "m", "e">>), Str(<<"b", "u", "s", "i", "n", "e", "s", "s", "_", "u", "n", "i", "t">>)>>,
       cells |-> <<TextCells, OptionalCells, OptionalCells>>],
      [spec |-> COST_CENTERS_SPEC,
       headers |-> <<Str(<<"C", "o", "s", "t", "-", "C", "e", "n", "t", "e", "r">>), Str(<<"C", "O", "D", "E", " ">>)>>,
       cells |-> <<TextCellsOrNone, TextCellsOrNone>>],
      [spec |-> COST_CENTERS_SPEC,
       headers |-> <<Str(<<"n", "a", "m", "e">>), Str(<<"z", "z", "z">>)>>,
       cells |-> <<TextCells, OptionalCells>>],
      [spec |-> COST_CENTERS_SPEC,
       headers |-> <<Str(<<" ", "-", " ">>), Str(<<"N", "a", "m", "e">>)>>,
       cells |-> <<OptionalCells, TextCellsOrNone>>],
      [spec |-> AMOUNTS_SPEC,
       headers |-> <<Str(<<"a", "m", "o", "u", "n", "t">>), Str(<<"t", "o", "t", "a", "l">>)>>,
       cells |-> <<NumberCells, NumberCells>>],
      [spec |-> AMOUNTS_SPEC,
       headers |-> <<Str(<<"T", "o", "t", "a", "l">>), Str(<<"r", "e", "f">>)>>,
       cells |-> <<NumberCells, NumberCells>>],
      [spec |-> AMOUNTS_SPEC,
       headers |-> <<Str(<<"z", "z", "z">>), Str(<<"a", "m", "o", "u", "n", "t">>)>>,
       cells |-> <<OptionalCells, NumberCells>>],
      [spec |-> AMOUNTS_SPEC,
       headers |-> <<None_, Str(<<"b", ".", "u">>)>>,
       cells |-> <<OptionalCells, OptionalCells>>],
      [spec |-> AMOUNTS_SPEC,
       headers |-> <<Str(<<" ", "-", " ">>), Str(<<"a", "m", "o", "u", "n", "t">>)>>,
       cells |-> <<OptionalCells, NumberCells>>] }

\* the rows a reader yields for a header row: one dict item per header, in order
RowsOf(hs, cells) == [r \in 1..Len(cells) |-> [i \in 1..Len(hs) |-> <<hs[i], cells[r][i]>>]]

\* n rows of cells, the cell of column j drawn from pools[j]
CellRows(n, pools) ==
    LET all == UNION {pools[j] : j \in 1..Len(pools)}
        row == {c \in [1..Len(pools) -> all] : \A j \in 1..Len(pools) : c[j] \in pools[j]}
    IN  [1..n -> row]

NoResult == [clean_rows |-> <<>>, errors |-> <<>>, warnings |-> <<>>, headers_in_file |-> <<>>]
NoRequest == [rows |-> <<>>, user |-> None_]
NoResponse == [level |-> "none", text |-> "", created |-> 0, updated |-> 0, detail |-> None_]

NoCall == [fn |-> "none", arg |-> None_]
NoUpload == [name |-> None_, format |-> None_, content |-> None_]

\* no concurrent requests are modelled
ConcurrencyUnused ==
    /\ conn = <<>> /\ task = <<>> /\ prov = <<>> /\ session = <<>> /\ now = 0

\* no helper is being called, no file is being read
HelpersUnused == call = NoCall /\ returned = None_
ReadersUnused == upload = NoUpload /\ read_result = None_

\* the Data Hub is not in use: no request, empty tables
DataHubUnused ==
    /\ entity = "none"
    /\ request = NoRequest
    /\ response = NoResponse
    /\ vendors = <<>> /\ cost_centers = <<>> /\ services = <<>>
    /\ contracts = <<>> /\ invoices = <<>>

InitValidate ==
    /\ ConcurrencyUnused
    /\ DataHubUnused
    /\ HelpersUnused
    /\ ReadersUnused
    /\ pc = "start"
    /\ \E u \in Uploads :
         /\ spec = u.spec
         /\ headers_in_file = u.headers
         /\ \E n \in 0..MaxRows : \E cells \in CellRows(n, u.cells) :
                raw_rows = RowsOf(u.headers, cells)
    /\ result = NoResult

\* the call validate_rows(raw_rows, headers_in_file, spec)
ValidateRows ==
    /\ pc = "start"
    /\ result' = validate_rows(raw_rows, headers_in_file, spec)
    /\ pc' = "done"
    /\ UNCHANGED <<spec, headers_in_file, raw_rows>>
    /\ UNCHANGED <<import_vars, helper_vars, reader_vars, conc_vars>>

NextValidate == ValidateRows

SpecValidate == InitValidate /\ [][NextValidate]_vars

(***************************************************************************)
(* Properties of validate_rows                                             *)
(***************************************************************************)
Range(f) == {f[x] : x \in DOMAIN f}
Count(seq, P(_)) == Cardinality({k \in 1..Len(seq) : P(seq[k])})

\* for each column of a raw row, the field its header is mapped to ("" if none)
FieldAt(sp, raw) ==
    [j \in 1..Len(raw) |->
        LET n == normalize_header(raw[j][1])
        IN  IF n \in DOMAIN sp.header_map THEN sp.header_map[n] ELSE ""]

\* the positions of the columns mapped to field, given fa = FieldAt(sp, raw)
ColumnsOf(fa, field) == {j \in DOMAIN fa : fa[j] = field}

\* a raw cell that is None, empty or whitespace-only
IsBlankCell(v) == IsNone(v) \/ (IsStr(v) /\ \A k \in 1..Len(v.s) : v.s[k] \in Whitespace)

\* for each column of a raw row, whether it is mapped and its converter raises
RaisesAt(sp, raw, fa) ==
    [j \in DOMAIN fa |-> fa[j] # "" /\ IsRaise(Convert(sp, fa[j], raw[j][2]))]

RowErrors(res, i) == SelectSeq(res.errors, LAMBDA e : e.row = i)
ColumnAndMessage(errs) == [k \in 1..Len(errs) |-> <<errs[k].column, errs[k].message>>]

\* C1: validate_rows returns exactly len(raw_rows) clean rows, and clean row i is
\* the conversion of raw row i, whatever the number of rows with errors.
C1_CleanRowsOneToOne ==
    pc = "done" =>
        /\ Len(result.clean_rows) = Len(raw_rows)
        /\ \A i \in 1..Len(raw_rows) :
             /\ i <= Len(result.clean_rows)
             /\ result.clean_rows[i] =
                  ConvertColumns(spec, i, raw_rows[i],
                                 [clean |-> EmptyDict, errors |-> <<>>]).clean

C1_Witness ==
    /\ pc = "done"
    /\ Len(raw_rows) = 2
    /\ \A i \in 1..2 : RowErrors(result, i) # <<>>
    /\ Len(result.clean_rows) = 2
    /\ result.clean_rows[1] # result.clean_rows[2]

\* C2: the CleanRow and the (column, message) error items of row i in a batch are
\* those of row i validated alone; an error in one row changes no other row.
C2_RowsIndependent ==
    pc = "done" =>
        \A i \in 1..Len(raw_rows) :
            LET alone == validate_rows(<<raw_rows[i]>>, headers_in_file, spec)
            IN  /\ i <= Len(result.clean_rows)
                /\ result.clean_rows[i] = alone.clean_rows[1]
                /\ ColumnAndMessage(RowErrors(result, i)) = ColumnAndMessage(alone.errors)

C2_Witness ==
    /\ pc = "done"
    /\ Len(raw_rows) = 2
    /\ \E e \in Range(RowErrors(result, 1)) : e.message.text = "Invalid decimal"
    /\ \E e \in Range(RowErrors(result, 1)) : e.message = RequiredMissing
    /\ RowErrors(result, 2) = <<>>
    /\ DOMAIN result.clean_rows[2] = {"amount", "ref"}

\* the "Required value is missing." items of row i for field req
RequiredItems(res, i, req) ==
    SelectSeq(res.errors, LAMBDA e : e.row = i /\ e.column = req /\ e.message = RequiredMissing)

\* every column of the required field req is present and blank in the raw row
RequiredBlank(raw, fa, req) ==
    /\ ColumnsOf(fa, req) # {}
    /\ \A j \in ColumnsOf(fa, req) : IsBlankCell(raw[j][2])

\* every required field of the raw row has columns, none of them blank
AllRequiredNonBlank(sp, raw, fa) ==
    \A req \in Range(sp.required) :
        /\ ColumnsOf(fa, req) # {}
        /\ \A j \in ColumnsOf(fa, req) : ~IsBlankCell(raw[j][2])

ConverterErrorRecorded(i, raw, fa, j) ==
    \E e \in Range(result.errors) :
        /\ e.row = i
        /\ e.column = fa[j]
        /\ e.message = ExceptionMessage(Convert(spec, fa[j], raw[j][2]))

\* C8 (as stated): whenever a converter raises for a mapped column of a row, an
\* error item with that row and canonical column is recorded and the canonical
\* field is absent from the row's CleanRow, whatever the columns of the row.
C8_AsStated ==
    pc = "done" =>
        \A i \in 1..Len(raw_rows) :
            LET raw == raw_rows[i]
                fa == FieldAt(spec, raw)
                bad == RaisesAt(spec, raw, fa)
            IN  \A j \in DOMAIN fa :
                    bad[j] => /\ ConverterErrorRecorded(i, raw, fa, j)
                              /\ fa[j] \notin DOMAIN result.clean_rows[i]

\* C8 (amended): whenever a converter raises for a mapped column of a row, an
\* error item with that row and canonical column is recorded and that column
\* stores nothing, no placeholder: the field is absent from the row's CleanRow
\* unless another column of the row mapped to the same field converted without
\* raising, and then the field holds the value converted from such a column.
C8_RaisingColumnStoresNothing ==
    pc = "done" =>
        \A i \in 1..Len(raw_rows) :
            LET raw == raw_rows[i]
                fa == FieldAt(spec, raw)
                bad == RaisesAt(spec, raw, fa)
            IN  \A j \in DOMAIN fa :
                    bad[j] =>
                        LET good == {j2 \in ColumnsOf(fa, fa[j]) : ~bad[j2]}
                        IN  /\ ConverterErrorRecorded(i, raw, fa, j)
                            /\ fa[j] \in DOMAIN result.clean_rows[i] <=> good # {}
                            /\ fa[j] \in DOMAIN result.clean_rows[i] =>
                                 \E j2 \in good :
                                    result.clean_rows[i][fa[j]] = Convert(spec, fa[j], raw[j2][2])

C8_Witness ==
    /\ pc = "done"
    /\ Len(raw_rows) = 2
    /\ LET fa == FieldAt(spec, raw_rows[1])
           bad1 == RaisesAt(spec, raw_rows[1], fa)
           bad2 == RaisesAt(spec, raw_rows[2], fa)
       IN  /\ ColumnsOf(fa, "amount") = {1, 2}
           /\ bad1[1] /\ bad1[2]
           /\ bad2[1] /\ ~bad2[2]
    /\ "amount" \notin DOMAIN result.clean_rows[1]
    /\ result.clean_rows[2]["amount"] = Dec(1, 1, 0)

\* the required fields some header of the file maps to
MappedRequired ==
    LET fields == [k \in 1..Len(headers_in_file) |->
                     LET n == normalize_header(headers_in_file[k])
                     IN  IF ~IsNone(headers_in_file[k]) /\ n \in DOMAIN spec.header_map
                         THEN spec.header_map[n] ELSE ""]
    IN  Range(spec.required) \cap Range(fields)

COST_CENTER_EXAMPLE_HEADERS ==
    <<Str(<<"c", "o", "d", "e">>), Str(<<"n", "a", "m", "e">>),
      Str(<<"b", "u", "s", "i", "n", "e", "s", "s", "_", "u", "n", "i", "t">>)>>

\* the cost-center file of the example: exactly row k has a blank code
OneBlankCode(k) ==
    /\ spec = COST_CENTERS_SPEC
    /\ headers_in_file = COST_CENTER_EXAMPLE_HEADERS
    /\ k \in 1..Len(raw_rows)
    /\ \A i \in 1..Len(raw_rows) :
         /\ IsBlankCell(raw_rows[i][1][2]) <=> i = k
         /\ ~IsBlankCell(raw_rows[i][2][2])

\* C9: exactly one "missing required column" warning for each required field no
\* header maps to and none for a mapped one; with allow_unknown_columns true
\* there are no other warnings; a cost-center file with headers code, name,
\* business_unit and one row with an empty code gives 0 warnings and exactly one
\* error item (that row, column code).
C9_MissingColumnWarnings ==
    pc = "done" =>
        /\ LET mapped == MappedRequired
           IN  \A req \in Range(spec.required) :
                 Count(result.warnings, LAMBDA w : w = MissingColumnWarning(req))
                    = (IF req \in mapped THEN 0 ELSE 1)
        /\ spec.allow_unknown_columns =>
             \A w \in Range(result.warnings) :
                \E req \in Range(spec.required) : w = MissingColumnWarning(req)
        /\ \A k \in 1..Len(raw_rows) :
             OneBlankCode(k) =>
                /\ result.warnings = <<>>
                /\ result.errors = <<ValidationErrorItem(k, "code", RequiredMissing)>>
                /\ Len(result.clean_rows) = Len(raw_rows)

C9_Witness ==
    /\ pc = "done"
    /\ OneBlankCode(2)
    /\ Len(raw_rows) = 2
    /\ Len(result.errors) = 1
    /\ result.warnings = <<>>

C9_WitnessMissingColumn ==
    /\ pc = "done"
    /\ spec = COST_CENTERS_SPEC
    /\ MappedRequired = {"code"}
    /\ result.warnings = <<MissingColumnWarning("name")>>

\* the normalized headers of the file that have no entry in the header map
UnmappedHeaders ==
    LET keep == SelectSeq(headers_in_file, LAMBDA h : ~IsNone(h))
        norm == [k \in 1..Len(keep) |-> normalize_header(keep[k])]
    IN  Range(norm) \ DOMAIN spec.header_map

IsUnknownColumnsWarning(w) == w.text = "Unknown columns will be ignored"

\* every error item of the result comes from a mapped column whose converter
\* raised or from a blank required field
ErrorsOnlyFromMappedColumns ==
    \A i \in 1..Len(raw_rows) :
        LET raw == raw_rows[i]
            fa == FieldAt(spec, raw)
            bad == RaisesAt(spec, raw, fa)
        IN  \A e \in Range(RowErrors(result, i)) :
                \/ e.message = RequiredMissing /\ e.column \in Range(spec.required)
                \/ \E j \in DOMAIN fa :
                      /\ bad[j]
                      /\ e.column = fa[j]
                      /\ e.message = ExceptionMessage(Convert(spec, fa[j], raw[j][2]))

CleanKeysAreCanonical ==
    \A i \in 1..Len(result.clean_rows) :
        DOMAIN result.clean_rows[i] \subseteq Range(spec.header_map)

\* C10 (as stated): columns whose normalized header has no entry in the header
\* map cause no per-row error and contribute no field; with
\* allow_unknown_columns false exactly one combined warning lists all such
\* headers, with it true no warning is emitted for them.
C10_AsStated ==
    pc = "done" =>
        /\ ErrorsOnlyFromMappedColumns
        /\ CleanKeysAreCanonical
        /\ \A e \in Range(result.errors) : e.row \in 1..Len(raw_rows)
        /\ LET unmapped == UnmappedHeaders
           IN  /\ (~spec.allow_unknown_columns /\ unmapped # {}) =>
                    /\ Count(result.warnings, IsUnknownColumnsWarning) = 1
                    /\ UnknownColumnsWarning(unmapped) \in Range(result.warnings)
               /\ spec.allow_unknown_columns =>
                    Count(result.warnings, IsUnknownColumnsWarning) = 0

\* C10 (amended): as stated, but the combined warning lists the unmapped headers
\* whose normalized form is not empty; a header that normalizes to the empty
\* string is never listed, and when no other header is unmapped no warning is
\* emitted.
C10_UnknownColumns ==
    pc = "done" =>
        /\ ErrorsOnlyFromMappedColumns
        /\ CleanKeysAreCanonical
        /\ \A e \in Range(result.errors) : e.row \in 1..Len(raw_rows)
        /\ LET unmapped == UnmappedHeaders \ {<<>>}
           IN  /\ (~spec.allow_unknown_columns /\ unmapped # {}) =>
                    /\ Count(result.warnings, IsUnknownColumnsWarning) = 1
                    /\ UnknownColumnsWarning(unmapped) \in Range(result.warnings)
               /\ (spec.allow_unknown_columns \/ unmapped = {}) =>
                    Count(result.warnings, IsUnknownColumnsWarning) = 0

C10_Witness ==
    /\ pc = "done"
    /\ ~spec.allow_unknown_columns
    /\ UnmappedHeaders = {<<"z", "z", "z">>}
    /\ Len(raw_rows) = 2
    /\ \A i \in 1..2 : ~IsBlankCell(raw_rows[i][1][2])
    /\ \A i \in 1..2 : DOMAIN result.clean_rows[i] = {"amount"}
    /\ UnknownColumnsWarning({<<"z", "z", "z">>}) \in Range(result.warnings)

(***************************************************************************)
(* portal/views.py : cell helpers of the Data Hub importers                *)
(***************************************************************************)
Date(y, m, d) == [t |-> "date", y |-> y, m |-> m, d |-> d]
IntVal(n) == [t |-> "int", n |-> n]
EmptyStr == Str(<<>>)

\* Python truthiness: None, "", 0 and Decimal("0") are falsy
Truthy(v) ==
    CASE v.t = "None" -> FALSE
      [] v.t = "str" -> v.s # <<>>
      [] v.t = "Decimal" -> v.coeff # 0
      [] v.t = "int" -> v.n # 0
      [] OTHER -> TRUE

\* r.get(key) on a row dict
RowGet(r, key) == IF key \in DOMAIN r THEN r[key] ELSE None_

\* _as_str(v) for a value that is None or a str
_as_str(v) == IF IsNone(v) THEN EmptyStr ELSE Str(Strip(v.s, Whitespace))

\* the parts of s between occurrences of sep (str.split)
RECURSIVE Split(_, _)
Split(s, sep) ==
    Bind({i \in 1..Len(s) : s[i] = sep}, LAMBDA at :
        IF at = {} THEN <<s>>
        ELSE Bind(CHOOSE k \in at : \A j \in at : k <= j, LAMBDA i :
                 <<SubSeq(s, 1, i - 1)>> \o Split(SubSeq(s, i + 1, Len(s)), sep)))

IsLeap(y) == (y % 4 = 0 /\ y % 100 # 0) \/ y % 400 = 0
DaysInMonth(y, m) ==
    IF m = 2 THEN (IF IsLeap(y) THEN 29 ELSE 28)
    ELSE IF m \in {4, 6, 9, 11} THEN 30 ELSE 31

InvalidDate == [t |-> "invalid"]

\* datetime.date(y, m, d), or invalid (ValueError) when out of range
MakeDate(y, m, d) ==
    IF y >= 1 /\ m \in 1..12 /\ d >= 1 /\ d <= DaysInMonth(y, m)
    THEN Date(y, m, d) ELSE InvalidDate

\* one strptime directive against one part of the text: the number it reads,
\* or -1 when the directive's pattern does not match the part
Directive(d, part) ==
    CASE d = "Y" -> IF Len(part) = 4 /\ AllDigits(part) THEN DigitsToInt(part) ELSE -1
      [] d = "m" ->
            IF Len(part) \in {1, 2} /\ AllDigits(part) /\ DigitsToInt(part) \in 1..12
            THEN DigitsToInt(part) ELSE -1
      [] d = "d" ->
            IF Len(part) \in {1, 2} /\ AllDigits(part) /\ DigitsToInt(part) \in 1..31
            THEN DigitsToInt(part)
            ELSE IF Len(part) = 2 /\ part[1] = " " /\ part[2] \in Digits \ {"0"}
                 THEN DigitValue(part[2]) ELSE -1

\* the number read for directive x, given the numbers n read in the order dirs
NumberFor(x, dirs, n) == n[CHOOSE k \in 1..3 : dirs[k] = x]

\* datetime.strptime(s, fmt).date() for a format of three directives joined
\* by one separator, e.g. <<"d", "m", "Y">> and "/" for "%d/%m/%Y"
StrpDate(s, dirs, sep) ==
    Bind(Split(s, sep), LAMBDA parts :
        IF Len(parts) # 3 THEN InvalidDate
        ELSE Bind([k \in 1..3 |-> Directive(dirs[k], parts[k])], LAMBDA n :
                 IF \E k \in 1..3 : n[k] < 0 THEN InvalidDate
                 ELSE MakeDate(NumberFor("Y", dirs, n), NumberFor("m", dirs, n),
                               NumberFor("d", dirs, n))))

\* the time part "HH:MM" of an ISO text
IsoTime(s) ==
    /\ Len(s) = 5 /\ s[3] = ":"
    /\ AllDigits(SubSeq(s, 1, 2)) /\ DigitsToInt(SubSeq(s, 1, 2)) \in 0..23
    /\ AllDigits(SubSeq(s, 4, 5)) /\ DigitsToInt(SubSeq(s, 4, 5)) \in 0..59

\* datetime.fromisoformat(s).date() on a text in the extended format
\* YYYY-MM-DD, alone or followed by one separator character and the time
\* HH:MM (seconds, fractions, offsets, and the basic and week formats that
\* newer interpreters also read, are outside the cells tried)
FromIsoFormat(s) ==
    IF Len(s) \in {10, 16} /\ s[5] = "-" /\ s[8] = "-"
       /\ AllDigits(SubSeq(s, 1, 4)) /\ AllDigits(SubSeq(s, 6, 7)) /\ AllDigits(SubSeq(s, 9, 10))
       /\ (Len(s) = 16 => IsoTime(SubSeq(s, 12, 16)))
    THEN MakeDate(DigitsToInt(SubSeq(s, 1, 4)), DigitsToInt(SubSeq(s, 6, 7)),
                  DigitsToInt(SubSeq(s, 9, 10)))
    ELSE InvalidDate

\* the formats _parse_date tries after fromisoformat, in order
DATE_FORMATS == << [dirs |-> <<"Y", "m", "d">>, sep |-> "-"],
                   [dirs |-> <<"d", "m", "Y">>, sep |-> "/"],
                   [dirs |-> <<"m", "d", "Y">>, sep |-> "/"] >>

RECURSIVE TryFormats(_, _)
TryFormats(s, fmts) ==
    IF fmts = <<>> THEN Raise("Invalid date format", Str(s))
    ELSE Bind(StrpDate(s, Head(fmts).dirs, Head(fmts).sep), LAMBDA d :
             IF d.t = "date" THEN d ELSE TryFormats(s, Tail(fmts)))

\* _parse_date(value) for a value that is None or a str
_parse_date(value) ==
    IF IsNone(value) THEN None_
    ELSE Bind(_as_str(value).s, LAMBDA s :
             IF s = <<>> THEN None_
             ELSE Bind(FromIsoFormat(s), LAMBDA iso :
                      IF iso.t = "date" THEN iso ELSE TryFormats(s, DATE_FORMATS)))

\* _parse_decimal(value) of views.py: only the comma is rewritten
_parse_decimal(value) ==
    Bind(_as_str(value).s, LAMBDA s :
        IF s = <<>> THEN None_
        ELSE Bind(DecimalOf(ReplaceChar(s, ",", ".")), LAMBDA d :
                 IF d.t = "invalid"
                 THEN Raise("Invalid decimal value", Str(ReplaceChar(s, ",", ".")))
                 ELSE d))

RECURSIVE Pow10(_)
Pow10(n) == IF n = 0 THEN 1 ELSE 10 * Pow10(n - 1)

Bool(b) == [t |-> "bool", b |-> b]

\* _parse_int with the decimal rounded half up instead of truncated
_parse_intRounds(value) ==
    IF IsNone(value) \/ value.t = "bool" THEN None_
    ELSE IF value.t = "int" THEN value
    ELSE Bind(_as_str(value).s, LAMBDA s :
             IF s = <<>> THEN None_
             ELSE Bind(DecimalOf(ReplaceChar(s, ",", ".")), LAMBDA d :
                      IF d.t = "invalid" THEN Raise("Invalid integer value", Str(s))
                      ELSE IntVal(d.sign * ((2 * d.coeff + Pow10(d.scale)) \div (2 * Pow10(d.scale))))))

\* _parse_int(value) for a value that is None, a bool, an int or a str:
\* int(Decimal(..)) truncates toward zero
_parse_int(value) ==
    IF IsNone(value) \/ value.t = "bool" THEN None_
    ELSE IF value.t = "int" THEN value
    ELSE Bind(_as_str(value).s, LAMBDA s :
             IF s = <<>> THEN None_
             ELSE Bind(DecimalOf(ReplaceChar(s, ",", ".")), LAMBDA d :
                      IF d.t = "invalid" THEN Raise("Invalid integer value", Str(s))
                      ELSE IntVal(d.sign * (d.coeff \div Pow10(d.scale)))))

\* date comparison a > b
DateAfter(a, b) ==
    \/ a.y > b.y
    \/ a.y = b.y /\ a.m > b.m
    \/ a.y = b.y /\ a.m = b.m /\ a.d > b.d

(***************************************************************************)
(* portal/models.py : the tables the importers read and write.  A table is *)
(* the sequence of its rows in primary-key order; a foreign key holds the  *)
(* position of the row it points to.  Fields the importers neither read    *)
(* nor write are left out.                                                 *)
(***************************************************************************)
Ref(id) == [t |-> "ref", id |-> id]
User(name) == [t |-> "user", name |-> name]

Alphabet == <<"a", "b", "c", "d", "e", "f", "g", "h", "i", "j", "k", "l", "m",
              "n", "o", "p", "q", "r", "s", "t", "u", "v", "w", "x", "y", "z">>
LetterIndex(c) == CHOOSE i \in 1..Len(Alphabet) : Alphabet[i] = c

\* code point of a character of the cells tried (the database's binary collation)
CodePoint(c) ==
    CASE c = "\t" -> 9 [] c = "\n" -> 10 [] c = "\r" -> 13
      [] c = " " -> 32 [] c = "\"" -> 34 [] c = "," -> 44 [] c = "-" -> 45
      [] c = "." -> 46 [] c = "/" -> 47
      [] c \in Digits -> 48 + DigitValue(c)
      [] c \in UpperLetters -> 64 + LetterIndex(LowerOf[c])
      [] c = "_" -> 95
      [] c \in LowerLetters -> 96 + LetterIndex(c)

\* a < b for two texts, ORDER BY of a text column
TextBefore(a, b) ==
    \E k \in 1..(Len(a) + 1) :
        /\ k <= Len(b)
        /\ \A j \in 1..(k - 1) : a[j] = b[j]
        /\ (k = Len(a) + 1 \/ CodePoint(a[k]) < CodePoint(b[k]))

\* field__iexact=text
IExact(field, text) == Lower(field.s) = Lower(text.s)

\* QuerySet.first(): the matching row that the ordering puts first, 0 for None
First(matches, Before(_, _)) ==
    IF matches = {} THEN 0
    ELSE CHOOSE i \in matches : \A j \in matches \ {i} : Before(i, j)

\* Model.objects.create(**fields): field defaults, then the given fields
Create(table, blank, fields) ==
    Append(table, [f \in DOMAIN blank |-> IF f \in DOMAIN fields THEN fields[f] ELSE blank[f]])

\* setattr(obj, k, v) for every item of defaults that Keep accepts
SetAttrs(obj, defaults, Keep(_)) ==
    [f \in DOMAIN obj |->
        IF f \in DOMAIN defaults /\ Keep(defaults[f]) THEN defaults[f] ELSE obj[f]]

NotEmptyStr(v) == v # EmptyStr
NotNoneNotEmpty(v) == ~IsNone(v) /\ v # EmptyStr

Vendor ==
    [name |-> EmptyStr, vendor_type |-> EmptyStr, primary_contact_name |-> EmptyStr,
     primary_contact_email |-> EmptyStr, website |-> EmptyStr, notes |-> EmptyStr,
     tags |-> EmptyStr]

CostCenter ==
    [code |-> EmptyStr, name |-> EmptyStr, business_unit |-> EmptyStr, region |-> EmptyStr]

\* Vendor.Meta.ordering = ["name"]
VendorBefore(tbl, i, j) ==
    \/ TextBefore(tbl[i].name.s, tbl[j].name.s)
    \/ tbl[i].name = tbl[j].name /\ i < j

\* the lookup with name= in place of name__iexact=
VendorByNameCaseSensitive(tbl, name) ==
    First({i \in DOMAIN tbl : tbl[i].name = name}, LAMBDA i, j : VendorBefore(tbl, i, j))

\* Vendor.objects.filter(name__iexact=name).first()
VendorByName(tbl, name) ==
    First({i \in DOMAIN tbl : IExact(tbl[i].name, name)}, LAMBDA i, j : VendorBefore(tbl, i, j))

(***************************************************************************)
(* portal/views.py : the importers.  An importer runs over a working copy  *)
(* of the tables and returns it with the counters and the exception that   *)
(* ended it, if any.                                                       *)
(***************************************************************************)
Database == [vendors |-> vendors, cost_centers |-> cost_centers, services |-> services,
             contracts |-> contracts, invoices |-> invoices]

Started(db, error) == [db |-> db, created |-> 0, updated |-> 0, error |-> error]

\* "for r in rows:" with a body that may raise; the body is the importer's
RECURSIVE LoopBody(_, _, _, _)
RECURSIVE ForEachRow(_, _, _, _)
ForEachRow(key, rows, request_user, st) ==
    IF rows = <<>> \/ IsRaise(st.error) THEN st
    ELSE ForEachRow(key, Tail(rows), request_user, LoopBody(key, st, Head(rows), request_user))

\* @transaction.atomic around an importer whose run ended in state out
AtomicKeepsPartialWrites(db, out) == out

Atomic(db, out) == IF IsRaise(out.error) THEN [out EXCEPT !.db = db] ELSE out

\* _require_columns(rows, required): None, or the ValueError raised
RECURSIVE MissingColumns(_, _)
MissingColumns(required, cols) ==
    IF required = <<>> THEN <<>>
    ELSE (IF Head(required) \in cols THEN <<>> ELSE <<Head(required)>>)
         \o MissingColumns(Tail(required), cols)

_require_columns(rows, required) ==
    IF rows = <<>> THEN None_
    ELSE Bind(MissingColumns(required, DOMAIN rows[1]), LAMBDA missing :
             IF missing # <<>> THEN Raise("Missing required columns", missing) ELSE None_)

\* an importer: _require_columns, then the loop, inside transaction.atomic
RunImporter(key, required, rows, request_user, db) ==
    Bind(_require_columns(rows, required), LAMBDA req :
        Atomic(db, IF IsRaise(req) THEN Started(db, req)
                   ELSE ForEachRow(key, rows, request_user, Started(db, None_))))

\* the dict "defaults" of _import_vendors
VendorDefaults(r) ==
    [vendor_type |-> _as_str(RowGet(r, "vendor_type")),
     tags |-> _as_str(RowGet(r, "tags")),
     primary_contact_name |-> _as_str(RowGet(r, "primary_contact_name")),
     primary_contact_email |-> _as_str(RowGet(r, "primary_contact_email")),
     website |-> _as_str(RowGet(r, "website")),
     notes |-> _as_str(RowGet(r, "notes"))]

\* (mutant) no lookup: every row with a name creates a vendor
ImportVendorRowCreateOnly(st, r, request_user) ==
    Bind(_as_str(RowGet(r, "name")), LAMBDA name :
    Bind(VendorDefaults(r), LAMBDA defaults :
        IF ~Truthy(name) THEN st
        ELSE [st EXCEPT !.db.vendors =
                            Create(st.db.vendors, Vendor, [f \in {"name"} |-> name] @@ defaults),
                        !.created = @ + 1]))

\* body of the loop of _import_vendors
ImportVendorRow(st, r, request_user) ==
    Bind(_as_str(RowGet(r, "name")), LAMBDA name :
    Bind(VendorDefaults(r), LAMBDA defaults :
    Bind(VendorByName(st.db.vendors, name), LAMBDA obj :
        IF ~Truthy(name) THEN st
        ELSE IF obj # 0
        THEN [st EXCEPT !.db.vendors[obj] =
                            [SetAttrs(st.db.vendors[obj], defaults, NotEmptyStr)
                                EXCEPT !.name = name],
                        !.updated = @ + 1]
        ELSE [st EXCEPT !.db.vendors =
                            Create(st.db.vendors, Vendor, [f \in {"name"} |-> name] @@ defaults),
                        !.created = @ + 1])))

_import_vendors(rows, request_user, db) ==
    RunImporter("vendors", <<"name">>, rows, request_user, db)

\* the row update_or_create(code=code, ...) finds, 0 for none
CostCenterByCode(tbl, code) ==
    First({i \in DOMAIN tbl : tbl[i].code = code}, LAMBDA i, j : i < j)

Always(v) == TRUE

\* body of the loop of _import_cost_centers; update_or_create sets every
\* item of defaults on the row it finds
\* (mutant) only a blank code skips the row
ImportCostCenterRowAnyName(st, r, request_user) ==
    Bind(_as_str(RowGet(r, "code")), LAMBDA code :
    Bind([name |-> _as_str(RowGet(r, "name")),
          business_unit |-> _as_str(RowGet(r, "business_unit")),
          region |-> _as_str(RowGet(r, "region"))], LAMBDA defaults :
    Bind(CostCenterByCode(st.db.cost_centers, code), LAMBDA obj :
        IF ~Truthy(code) THEN st
        ELSE IF obj # 0
        THEN [st EXCEPT !.db.cost_centers[obj] = SetAttrs(st.db.cost_centers[obj], defaults, Always),
                        !.updated = @ + 1]
        ELSE [st EXCEPT !.db.cost_centers =
                            Create(st.db.cost_centers, CostCenter,
                                   [f \in {"code"} |-> code] @@ defaults),
                        !.created = @ + 1])))

ImportCostCenterRow(st, r, request_user) ==
    Bind(_as_str(RowGet(r, "code")), LAMBDA code :
    Bind(_as_str(RowGet(r, "name")), LAMBDA name :
    Bind([name |-> name,
          business_unit |-> _as_str(RowGet(r, "business_unit")),
          region |-> _as_str(RowGet(r, "region"))], LAMBDA defaults :
    Bind(CostCenterByCode(st.db.cost_centers, code), LAMBDA obj :
        IF ~Truthy(code) \/ ~Truthy(name) THEN st
        ELSE IF obj # 0
        THEN [st EXCEPT !.db.cost_centers[obj] = SetAttrs(st.db.cost_centers[obj], defaults, Always),
                        !.updated = @ + 1]
        ELSE [st EXCEPT !.db.cost_centers =
                            Create(st.db.cost_centers, CostCenter,
                                   [f \in {"code"} |-> code] @@ defaults),
                        !.created = @ + 1]))))

_import_cost_centers(rows, request_user, db) ==
    RunImporter("cost_centers", <<"code", "name">>, rows, request_user, db)

Service ==
    [vendor |-> None_, name |-> EmptyStr, category |-> EmptyStr, service_code |-> EmptyStr,
     default_currency |-> EmptyStr, default_billing_frequency |-> EmptyStr,
     owner_display |-> EmptyStr, list_price |-> None_, allocation_split |-> EmptyStr]

\* Service.Meta.ordering = ["vendor__name", "name"], within one vendor
ServiceBefore(tbl, i, j) ==
    \/ TextBefore(tbl[i].name.s, tbl[j].name.s)
    \/ tbl[i].name = tbl[j].name /\ i < j

\* Service.Meta.unique_together = [("vendor", "name")]: may row i hold rec
ServiceUnique(tbl, i, rec) ==
    \A j \in DOMAIN tbl \ {i} : ~(tbl[j].vendor = rec.vendor /\ tbl[j].name = rec.name)

\* defaults[key] = Parse(cell), only when the cell is not blank
Optional(key, cell, Parse(_)) ==
    IF Truthy(_as_str(cell)) THEN [f \in {key} |-> Parse(cell)] ELSE EmptyDict

\* the first exception among values computed in this order, else None
RECURSIVE FirstRaised(_)
FirstRaised(values) ==
    IF values = <<>> THEN None_
    ELSE IF IsRaise(Head(values)) THEN Head(values) ELSE FirstRaised(Tail(values))

\* Service.objects.filter(vendor=vendor, name__iexact=name).first()
ServiceByName(tbl, vendor, name) ==
    First({i \in DOMAIN tbl : tbl[i].vendor = Ref(vendor) /\ IExact(tbl[i].name, name)},
          LAMBDA i, j : ServiceBefore(tbl, i, j))

\* the dict "defaults" of _import_services; list_price may be an exception
ServiceDefaults(r) ==
    [category |-> _as_str(RowGet(r, "category")),
     service_code |-> _as_str(RowGet(r, "service_code")),
     default_currency |-> _as_str(RowGet(r, "default_currency")),
     default_billing_frequency |-> _as_str(RowGet(r, "default_billing_frequency")),
     owner_display |-> _as_str(RowGet(r, "owner_display")),
     allocation_split |-> _as_str(RowGet(r, "allocation_split"))]
    @@ Optional("list_price", RowGet(r, "list_price"), _parse_decimal)

\* obj.save() of an updated service, the table constraint checked
SaveService(st, obj, saved) ==
    IF ~ServiceUnique(st.db.services, obj, saved)
    THEN [st EXCEPT !.error = Raise("IntegrityError", <<"vendor", "name">>)]
    ELSE [st EXCEPT !.db.services[obj] = saved, !.updated = @ + 1]

\* body of the loop of _import_services
ImportServiceRow(st, r, request_user) ==
    Bind(_as_str(RowGet(r, "vendor_name")), LAMBDA vendor_name :
    Bind(_as_str(RowGet(r, "name")), LAMBDA name :
    Bind(VendorByName(st.db.vendors, vendor_name), LAMBDA vendor :
    Bind(ServiceDefaults(r), LAMBDA defaults :
    Bind(ServiceByName(st.db.services, vendor, name), LAMBDA obj :
        IF ~Truthy(vendor_name) \/ ~Truthy(name) THEN st
        ELSE IF vendor = 0
        THEN [st EXCEPT !.error = Raise("Vendor not found for service", <<vendor_name, name>>)]
        ELSE IF IsRaise(DictGet(defaults, "list_price"))
        THEN [st EXCEPT !.error = defaults["list_price"]]
        ELSE IF obj # 0
        THEN SaveService(st, obj, SetAttrs([st.db.services[obj] EXCEPT !.name = name],
                                           defaults, NotNoneNotEmpty))
        ELSE [st EXCEPT !.db.services =
                            Create(st.db.services, Service,
                                   [f \in {"vendor", "name"} |->
                                        IF f = "vendor" THEN Ref(vendor) ELSE name] @@ defaults),
                        !.created = @ + 1])))))

_import_services(rows, request_user, db) ==
    RunImporter("services", <<"vendor_name", "name">>, rows, request_user, db)

Contract ==
    [owner |-> None_, vendor |-> None_, contract_name |-> EmptyStr, contract_id |-> EmptyStr,
     contract_type |-> EmptyStr, entity |-> EmptyStr, annual_value |-> None_,
     currency |-> EmptyStr, start_date |-> None_, end_date |-> None_,
     renewal_date |-> None_, notice_period_days |-> None_, notice_date |-> None_,
     status |-> Str(<<"a", "c", "t", "i", "v", "e">>), uploaded_by |-> None_]

\* Contract.NOTICE_PERIOD_CHOICES, the tuple tested in _import_contracts
NOTICE_PERIODS == {30, 60, 90, 120}

\* notice_period_days of a row: _parse_int, then the membership test
NoticePeriodDays(npd) ==
    Bind(_parse_int(npd), LAMBDA notice_period_days :
        IF IsRaise(notice_period_days) THEN notice_period_days
        ELSE IF ~(notice_period_days.t = "int" /\ notice_period_days.n \in NOTICE_PERIODS)
        THEN Raise("Invalid notice_period_days", _as_str(npd))
        ELSE notice_period_days)

\* Contract.Meta.ordering = ["-created_at"]: the row created last comes first
ContractBefore(i, j) == i > j

\* the row a contract line is matched to (qs.first()), 0 for None
ContractMatch(tbl, request_user, vendor, contract_name, contract_id) ==
    First({i \in DOMAIN tbl :
              /\ tbl[i].owner = request_user
              /\ tbl[i].vendor = Ref(vendor)
              /\ IExact(tbl[i].contract_name, contract_name)
              /\ (Truthy(contract_id) => IExact(tbl[i].contract_id, contract_id))},
          ContractBefore)

\* the dict "defaults" of _import_contracts; a value may be an exception
ContractDefaults(r, request_user, vendor) ==
    [vendor |-> Ref(vendor),
     contract_name |-> _as_str(RowGet(r, "contract_name")),
     contract_id |-> _as_str(RowGet(r, "contract_id")),
     contract_type |-> _as_str(RowGet(r, "contract_type")),
     entity |-> _as_str(RowGet(r, "entity")),
     currency |-> _as_str(RowGet(r, "currency")),
     status |-> _as_str(RowGet(r, "status")),
     uploaded_by |-> request_user]
    @@ Optional("annual_value", RowGet(r, "annual_value"), _parse_decimal)
    @@ Optional("start_date", RowGet(r, "start_date"), _parse_date)
    @@ Optional("end_date", RowGet(r, "end_date"), _parse_date)
    @@ Optional("renewal_date", RowGet(r, "renewal_date"), _parse_date)
    @@ Optional("notice_period_days", RowGet(r, "notice_period_days"), NoticePeriodDays)
    @@ Optional("notice_date", RowGet(r, "notice_date"), _parse_date)

\* end_dt and notice_dt of _import_contracts, obj = 0 for None
EffectiveEndDate(defaults, tbl, obj) ==
    IF Truthy(DictGet(defaults, "end_date")) THEN defaults["end_date"]
    ELSE IF obj # 0 THEN tbl[obj].end_date ELSE None_

\* notice_dt taken from the row alone, the stored contract not consulted
EffectiveNoticeDateOfRow(defaults, tbl, obj) == DictGet(defaults, "notice_date")

EffectiveNoticeDate(defaults, tbl, obj) ==
    IF "notice_date" \in DOMAIN defaults THEN defaults["notice_date"]
    ELSE IF obj # 0 THEN tbl[obj].notice_date ELSE None_

\* the two date checks of _import_contracts: None, or the ValueError raised
NoticeDateCheckOff(contract_name, notice_dt, end_dt) == None_

NoticeDateCheck(contract_name, notice_dt, end_dt) ==
    IF Truthy(notice_dt) /\ ~Truthy(end_dt)
    THEN Raise("notice_date is set but end_date is missing", contract_name)
    ELSE IF Truthy(notice_dt) /\ Truthy(end_dt) /\ DateAfter(notice_dt, end_dt)
    THEN Raise("notice_date must be on/before end_date", contract_name)
    ELSE None_

\* the first exception raised while the dict "defaults" was built, else None
ContractDefaultsRaised(defaults) ==
    FirstRaised(<<DictGet(defaults, "annual_value"), DictGet(defaults, "start_date"),
                  DictGet(defaults, "end_date"), DictGet(defaults, "renewal_date"),
                  DictGet(defaults, "notice_period_days"), DictGet(defaults, "notice_date")>>)

\* body of the loop of _import_contracts
ImportContractRow(st, r, request_user) ==
    Bind(_as_str(RowGet(r, "vendor_name")), LAMBDA vendor_name :
    Bind(_as_str(RowGet(r, "contract_name")), LAMBDA contract_name :
    Bind(VendorByName(st.db.vendors, vendor_name), LAMBDA vendor :
    Bind(ContractMatch(st.db.contracts, request_user, vendor, contract_name,
                       _as_str(RowGet(r, "contract_id"))), LAMBDA obj :
    Bind(ContractDefaults(r, request_user, vendor), LAMBDA defaults :
    Bind(ContractDefaultsRaised(defaults), LAMBDA raised :
    Bind(NoticeDateCheck(contract_name, EffectiveNoticeDate(defaults, st.db.contracts, obj),
                         EffectiveEndDate(defaults, st.db.contracts, obj)), LAMBDA checked :
        IF ~Truthy(vendor_name) \/ ~Truthy(contract_name) THEN st
        ELSE IF vendor = 0
        THEN [st EXCEPT !.error = Raise("Vendor not found for contract",
                                        <<vendor_name, contract_name>>)]
        ELSE IF IsRaise(raised) THEN [st EXCEPT !.error = raised]
        ELSE IF IsRaise(checked) THEN [st EXCEPT !.error = checked]
        ELSE IF obj # 0
        THEN [st EXCEPT !.db.contracts[obj] =
                            SetAttrs(st.db.contracts[obj], defaults, NotNoneNotEmpty),
                        !.updated = @ + 1]
        ELSE [st EXCEPT !.db.contracts =
                            Create(st.db.contracts, Contract,
                                   [f \in {"owner"} |-> request_user] @@ defaults),
                        !.created = @ + 1])))))))

_import_contracts(rows, request_user, db) ==
    RunImporter("contracts", <<"vendor_name", "contract_name">>, rows, request_user, db)

Invoice ==
    [owner |-> None_, vendor |-> None_, contract |-> None_, invoice_number |-> EmptyStr,
     invoice_date |-> None_, currency |-> EmptyStr, total_amount |-> None_,
     tax_amount |-> None_, period_start |-> None_, period_end |-> None_, notes |-> EmptyStr]

\* Invoice.Meta.ordering = ["-invoice_date", "-id"]
InvoiceBefore(tbl, i, j) ==
    \/ DateAfter(tbl[i].invoice_date, tbl[j].invoice_date)
    \/ tbl[i].invoice_date = tbl[j].invoice_date /\ i > j

\* the constraints of table portal_invoice on saving rec as row i: None, or
\* the IntegrityError (invoice_date is NOT NULL; unique_together vendor, invoice_number)
InvoiceConstraints(tbl, i, rec) ==
    IF IsNone(rec.invoice_date) THEN Raise("IntegrityError", <<"invoice_date">>)
    ELSE IF \E j \in DOMAIN tbl \ {i} :
                tbl[j].vendor = rec.vendor /\ tbl[j].invoice_number = rec.invoice_number
    THEN Raise("IntegrityError", <<"vendor", "invoice_number">>)
    ELSE None_

\* Contract.objects.filter(owner=.., [vendor=..,] contract_name__iexact=..).first();
\* vendor 0 leaves the vendor filter out
ContractByName(tbl, request_user, vendor, contract_name) ==
    First({i \in DOMAIN tbl :
              /\ tbl[i].owner = request_user
              /\ (vendor # 0 => tbl[i].vendor = Ref(vendor))
              /\ IExact(tbl[i].contract_name, contract_name)}, ContractBefore)

\* the contract an invoice line is linked to: by owner, vendor and name, else
\* by owner and name; None when the cell is blank or nothing matches
InvoiceContract(tbl, request_user, vendor, contract_name) ==
    Bind(ContractByName(tbl, request_user, vendor, contract_name), LAMBDA same_vendor :
    Bind(ContractByName(tbl, request_user, 0, contract_name), LAMBDA any_vendor :
        IF ~Truthy(contract_name) THEN None_
        ELSE IF same_vendor # 0 THEN Ref(same_vendor)
        ELSE IF any_vendor # 0 THEN Ref(any_vendor)
        ELSE None_))

\* "_parse_decimal(total_amount) or Decimal("0")"
TotalAmount(total_amount) ==
    Bind(_parse_decimal(total_amount), LAMBDA parsed :
        IF IsRaise(parsed) \/ Truthy(parsed) THEN parsed ELSE Dec(1, 0, 0))

\* the dict "defaults" of _import_invoices; a value may be an exception
InvoiceDefaults(r, currency, contract) ==
    [invoice_date |-> _parse_date(RowGet(r, "invoice_date")),
     currency |-> currency,
     total_amount |-> TotalAmount(RowGet(r, "total_amount")),
     notes |-> _as_str(RowGet(r, "notes")),
     contract |-> contract]
    @@ Optional("tax_amount", RowGet(r, "tax_amount"), _parse_decimal)
    @@ Optional("period_start", RowGet(r, "period_start"), _parse_date)
    @@ Optional("period_end", RowGet(r, "period_end"), _parse_date)

\* the first exception raised while the dict "defaults" was built, else None
InvoiceDefaultsRaised(defaults) ==
    FirstRaised(<<defaults["invoice_date"], defaults["total_amount"],
                  DictGet(defaults, "tax_amount"), DictGet(defaults, "period_start"),
                  DictGet(defaults, "period_end")>>)

\* Invoice.objects.filter(owner=.., vendor=.., invoice_number__iexact=..).first()
InvoiceByNumber(tbl, request_user, vendor, invoice_number) ==
    First({i \in DOMAIN tbl :
              /\ tbl[i].owner = request_user
              /\ tbl[i].vendor = Ref(vendor)
              /\ IExact(tbl[i].invoice_number, invoice_number)},
          LAMBDA i, j : InvoiceBefore(tbl, i, j))

\* the invoice row written for a line: obj updated, or a new row when obj = 0
InvoiceToSave(tbl, obj, request_user, vendor, invoice_number, defaults) ==
    IF obj # 0
    THEN [SetAttrs(tbl[obj], defaults, NotNoneNotEmpty) EXCEPT !.invoice_number = invoice_number]
    ELSE [f \in DOMAIN Invoice |->
             CASE f = "owner" -> request_user
               [] f = "vendor" -> Ref(vendor)
               [] f = "invoice_number" -> invoice_number
               [] f \in DOMAIN defaults -> defaults[f]
               [] OTHER -> Invoice[f]]

\* obj.save() or Invoice.objects.create(), the table constraints checked
SaveInvoice(st, obj, saved) ==
    Bind(InvoiceConstraints(st.db.invoices, obj, saved), LAMBDA refused :
        IF IsRaise(refused) THEN [st EXCEPT !.error = refused]
        ELSE IF obj # 0
        THEN [st EXCEPT !.db.invoices[obj] = saved, !.updated = @ + 1]
        ELSE [st EXCEPT !.db.invoices = Append(st.db.invoices, saved), !.created = @ + 1])

\* body of the loop of _import_invoices
ImportInvoiceRow(st, r, request_user) ==
    Bind(_as_str(RowGet(r, "vendor_name")), LAMBDA vendor_name :
    Bind(_as_str(RowGet(r, "invoice_number")), LAMBDA invoice_number :
    Bind(VendorByName(st.db.vendors, vendor_name), LAMBDA vendor :
    Bind(InvoiceDefaults(r, _as_str(RowGet(r, "currency")),
                         InvoiceContract(st.db.contracts, request_user, vendor,
                                         _as_str(RowGet(r, "contract_name")))), LAMBDA defaults :
    Bind(InvoiceDefaultsRaised(defaults), LAMBDA raised :
    Bind(InvoiceByNumber(st.db.invoices, request_user, vendor, invoice_number), LAMBDA obj :
        IF ~Truthy(vendor_name) \/ ~Truthy(invoice_number) THEN st
        ELSE IF vendor = 0
        THEN [st EXCEPT !.error = Raise("Vendor not found for invoice",
                                        <<vendor_name, invoice_number>>)]
        ELSE IF IsRaise(raised) THEN [st EXCEPT !.error = raised]
        ELSE SaveInvoice(st, obj, InvoiceToSave(st.db.invoices, obj, request_user, vendor,
                                                invoice_number, defaults))))))))

LoopBody(key, st, r, request_user) ==
    CASE key = "vendors" -> ImportVendorRow(st, r, request_user)
      [] key = "cost_centers" -> ImportCostCenterRow(st, r, request_user)
      [] key = "services" -> ImportServiceRow(st, r, request_user)
      [] key = "contracts" -> ImportContractRow(st, r, request_user)
      [] key = "invoices" -> ImportInvoiceRow(st, r, request_user)

_import_invoices(rows, request_user, db) ==
    RunImporter("invoices", <<"vendor_name", "invoice_number", "invoice_date",
                              "currency", "total_amount">>, rows, request_user, db)

\* DATA_ENTITIES[entity]["importer"](rows, request.user) over the tables db
Importer(key, rows, request_user, db) ==
    CASE key = "vendors" -> _import_vendors(rows, request_user, db)
      [] key = "cost_centers" -> _import_cost_centers(rows, request_user, db)
      [] key = "services" -> _import_services(rows, request_user, db)
      [] key = "contracts" -> _import_contracts(rows, request_user, db)
      [] key = "invoices" -> _import_invoices(rows, request_user, db)

\* the flash message data_import leaves
ImportResponse(rows, out) ==
    IF rows = <<>>
    THEN [level |-> "warning", text |-> "The uploaded file has no data rows.",
          created |-> 0, updated |-> 0, detail |-> None_]
    ELSE IF IsRaise(out.error)
    THEN [level |-> "error", text |-> "import failed.",
          created |-> 0, updated |-> 0, detail |-> out.error]
    ELSE [level |-> "success", text |-> "import completed.",
          created |-> out.created, updated |-> out.updated, detail |-> None_]

(***************************************************************************)
(* The Data Hub session: files uploaded to /data/import/<entity>/ and the  *)
(* handler data_import.  A request carries the rows _read_table returned,  *)
(* keyed by normalized header.                                             *)
(***************************************************************************)
ALICE == User("alice")
BOB == User("bob")

\* data rows tried per entity: the sets of rows sharing one header row
VendorRows ==
    { { [name |-> Str(<<"A", "c", "m", "e">>), vendor_type |-> Str(<<"o", "t", "h", "e", "r">>), notes |-> Str(<<>>)],
        [name |-> Str(<<" ", "A", "C", "M", "E", " ">>), vendor_type |-> Str(<<>>), notes |-> Str(<<"n", "1">>)],
        [name |-> Str(<<"a", "c", "m", "e">>), vendor_type |-> Str(<<"i", "n", "d", "e", "x", "e", "s">>), notes |-> Str(<<" ">>)],
        [name |-> Str(<<" ">>), vendor_type |-> Str(<<"o", "t", "h", "e", "r">>), notes |-> Str(<<"n", "1">>)],
        [name |-> Str(<<"B", "o", "l", "t">>), vendor_type |-> Str(<<>>), notes |-> Str(<<>>)] },
      { [vendor_type |-> Str(<<"o", "t", "h", "e", "r">>)] } }

CostCenterRows ==
    { { [code |-> Str(<<"C", "C", "1">>), name |-> Str(<<"O", "p", "s">>), business_unit |-> Str(<<"T", "r", "a", "d", "i", "n", "g">>), region |-> Str(<<"E", "M", "E", "A">>)],
        [code |-> Str(<<"C", "C", "1">>), name |-> Str(<<"O", "p", "s", "2">>), business_unit |-> Str(<<>>), region |-> Str(<<>>)],
        [code |-> Str(<<"c", "c", "1">>), name |-> Str(<<"O", "p", "s">>), business_unit |-> Str(<<" ">>), region |-> Str(<<"A", "P", "A", "C">>)],
        [code |-> Str(<<"C", "C", "1">>), name |-> Str(<<" ">>), business_unit |-> Str(<<"S", "a", "l", "e", "s">>), region |-> Str(<<>>)],
        [code |-> Str(<<>>), name |-> Str(<<"O", "p", "s">>), business_unit |-> Str(<<"S", "a", "l", "e", "s">>), region |-> Str(<<>>)] },
      { [code |-> Str(<<"C", "C", "1">>), region |-> Str(<<"E", "M", "E", "A">>)] } }

ServiceRows ==
    { { [vendor_name |-> Str(<<"a", "c", "m", "e">>), name |-> Str(<<"F", "e", "e", "d">>), category |-> Str(<<"o", "t", "h", "e", "r">>), list_price |-> Str(<<"1", "0">>)],
        [vendor_name |-> Str(<<"A", "c", "m", "e">>), name |-> Str(<<"F", "E", "E", "D">>), category |-> Str(<<>>), list_price |-> Str(<<>>)],
        [vendor_name |-> Str(<<"a", "c", "m", "e">>), name |-> Str(<<"T", "i", "c", "k">>), category |-> Str(<<"t", "e", "r", "m", "i", "n", "a", "l">>), list_price |-> Str(<<"2", ",", "5">>)],
        [vendor_name |-> Str(<<"N", "o", "p", "e">>), name |-> Str(<<"F", "e", "e", "d">>), category |-> Str(<<>>), list_price |-> Str(<<>>)],
        [vendor_name |-> Str(<<"a", "c", "m", "e">>), name |-> Str(<<"F", "e", "e", "d">>), category |-> Str(<<"t", "e", "r", "m", "i", "n", "a", "l">>), list_price |-> Str(<<"x">>)],
        [vendor_name |-> Str(<<>>), name |-> Str(<<"F", "e", "e", "d">>), category |-> Str(<<>>), list_price |-> Str(<<"x">>)],
        [vendor_name |-> Str(<<"a", "c", "m", "e">>), name |-> Str(<<"D", "a", "t", "a">>), category |-> Str(<<>>), list_price |-> Str(<<"1", ",", "2", "3", "4", ".", "5", "6">>)] },
      { [name |-> Str(<<"F", "e", "e", "d">>), category |-> Str(<<"o", "t", "h", "e", "r">>)] } }

ContractRows ==
    { { [vendor_name |-> Str(<<"a", "c", "m", "e">>), contract_name |-> Str(<<"M", "S", "A">>), contract_id |-> Str(<<>>),
         end_date |-> Str(<<"2", "0", "2", "5", "-", "1", "2", "-", "3", "1">>), notice_date |-> Str(<<"2", "0", "2", "5", "-", "1", "0", "-", "0", "1">>), notice_period_days |-> Str(<<"9", "0">>)],
        [vendor_name |-> Str(<<"a", "c", "m", "e">>), contract_name |-> Str(<<"m", "s", "a">>), contract_id |-> Str(<<>>),
         end_date |-> Str(<<>>), notice_date |-> Str(<<"2", "0", "2", "6", "-", "0", "1", "-", "1", "5">>), notice_period_days |-> Str(<<>>)],
        [vendor_name |-> Str(<<"a", "c", "m", "e">>), contract_name |-> Str(<<"M", "S", "A">>), contract_id |-> Str(<<"C", "1">>),
         end_date |-> Str(<<>>), notice_date |-> Str(<<>>), notice_period_days |-> Str(<<>>)],
        [vendor_name |-> Str(<<"a", "c", "m", "e">>), contract_name |-> Str(<<"M", "S", "A">>), contract_id |-> Str(<<>>),
         end_date |-> Str(<<"3", "1", "/", "1", "/", "2", "0", "2", "5">>), notice_date |-> Str(<<>>), notice_period_days |-> Str(<<>>)],
        [vendor_name |-> Str(<<"N", "o", "p", "e">>), contract_name |-> Str(<<"M", "S", "A">>), contract_id |-> Str(<<>>),
         end_date |-> Str(<<"2", "0", "2", "5", "-", "1", "2", "-", "3", "1">>), notice_date |-> Str(<<>>), notice_period_days |-> Str(<<>>)],
        [vendor_name |-> Str(<<"a", "c", "m", "e">>), contract_name |-> Str(<<"M", "S", "A">>), contract_id |-> Str(<<>>),
         end_date |-> Str(<<>>), notice_date |-> Str(<<>>), notice_period_days |-> Str(<<"4", "5">>)],
        [vendor_name |-> Str(<<>>), contract_name |-> Str(<<"M", "S", "A">>), contract_id |-> Str(<<>>),
         end_date |-> Str(<<>>), notice_date |-> Str(<<"2", "0", "2", "6", "-", "0", "1", "-", "1", "5">>), notice_period_days |-> Str(<<>>)],
        [vendor_name |-> Str(<<"a", "c", "m", "e">>), contract_name |-> Str(<<"M", "S", "A">>), contract_id |-> Str(<<>>),
         end_date |-> Str(<<"2", "0", "2", "6", "-", "0", "6", "-", "3", "0">>), notice_date |-> Str(<<>>), notice_period_days |-> Str(<<>>)] },
      { [contract_name |-> Str(<<"M", "S", "A">>), end_date |-> Str(<<"2", "0", "2", "5", "-", "1", "2", "-", "3", "1">>)] } }

InvoiceRows ==
    { { [vendor_name |-> Str(<<"a", "c", "m", "e">>), invoice_number |-> Str(<<"I", "N", "V", "1">>), invoice_date |-> Str(<<"2", "0", "2", "5", "-", "0", "1", "-", "3", "1">>),
         currency |-> Str(<<"U", "S", "D">>), total_amount |-> Str(<<"1", "0", "0">>)],
        [vendor_name |-> Str(<<"a", "c", "m", "e">>), invoice_number |-> Str(<<"i", "n", "v", "1">>), invoice_date |-> Str(<<>>),
         currency |-> Str(<<>>), total_amount |-> Str(<<>>)],
        [vendor_name |-> Str(<<"a", "c", "m", "e">>), invoice_number |-> Str(<<"I", "N", "V", "2">>), invoice_date |-> Str(<<>>),
         currency |-> Str(<<"U", "S", "D">>), total_amount |-> Str(<<"5">>)],
        [vendor_name |-> Str(<<"N", "o", "p", "e">>), invoice_number |-> Str(<<"I", "N", "V", "1">>), invoice_date |-> Str(<<"2", "0", "2", "5", "-", "0", "1", "-", "3", "1">>),
         currency |-> Str(<<"U", "S", "D">>), total_amount |-> Str(<<"1">>)],
        [vendor_name |-> Str(<<"A", "c", "m", "e">>), invoice_number |-> Str(<<"I", "N", "V", "1">>), invoice_date |-> Str(<<"1", "/", "2", "/", "2", "0", "2", "5">>),
         currency |-> Str(<<"E", "U", "R">>), total_amount |-> Str(<<"1", ",", "5">>)],
        [vendor_name |-> Str(<<>>), invoice_number |-> Str(<<"I", "N", "V", "1">>), invoice_date |-> Str(<<"x">>),
         currency |-> Str(<<>>), total_amount |-> Str(<<>>)] },
      { [vendor_name |-> Str(<<"a", "c", "m", "e">>), invoice_number |-> Str(<<"I", "N", "V", "1">>), total_amount |-> Str(<<"1">>)] } }

IMPORT_ENTITIES == {"vendors", "cost_centers", "services", "contracts", "invoices"}

RowPools(key) ==
    CASE key = "vendors" -> VendorRows
      [] key = "cost_centers" -> CostCenterRows
      [] key = "services" -> ServiceRows
      [] key = "contracts" -> ContractRows
      [] key = "invoices" -> InvoiceRows

\* the files tried for an entity: up to MaxRows rows under one header row
Files(key) == UNION {[1..n -> pool] : n \in 0..MaxRows, pool \in RowPools(key)}

\* who uploads: invoices belong to their owner, and two owners can collide on
\* the invoice number of a vendor
Uploaders(key) == IF key = "invoices" THEN {ALICE, BOB} ELSE {ALICE}

EmptyTables == [vendors |-> <<>>, cost_centers |-> <<>>, services |-> <<>>,
                contracts |-> <<>>, invoices |-> <<>>]

\* the vendor table the other entities are imported against: the one left by
\* importing a vendors file with the single row "Acme"
SeededVendors ==
    _import_vendors(<<[name |-> Str(<<"A", "c", "m", "e">>)]>>, ALICE, EmptyTables).db.vendors

InitImport ==
    /\ ConcurrencyUnused
    /\ pc = "idle"
    /\ spec = COST_CENTERS_SPEC /\ headers_in_file = <<>> /\ raw_rows = <<>> /\ result = NoResult
    /\ entity \in IMPORT_ENTITIES
    /\ request = NoRequest
    /\ response = NoResponse
    /\ vendors = IF entity = "vendors" THEN <<>> ELSE SeededVendors
    /\ cost_centers = <<>> /\ services = <<>> /\ contracts = <<>> /\ invoices = <<>>
    /\ HelpersUnused
    /\ ReadersUnused

\* a user posts a file to /data/import/<entity>/
Upload ==
    /\ pc = "idle"
    /\ \E rows \in Files(entity), user \in Uploaders(entity) :
           request' = [rows |-> rows, user |-> user]
    /\ pc' = "uploaded"
    /\ UNCHANGED <<validate_vars, entity, response, tables, helper_vars, reader_vars, conc_vars>>

\* data_import handles the POST: the importer runs and a message is left
DataImport ==
    /\ pc = "uploaded"
    /\ \E out \in {IF request.rows = <<>> THEN Started(Database, None_)
                    ELSE Importer(entity, request.rows, request.user, Database)} :
           /\ response' = ImportResponse(request.rows, out)
           /\ vendors' = out.db.vendors
           /\ cost_centers' = out.db.cost_centers
           /\ services' = out.db.services
           /\ contracts' = out.db.contracts
           /\ invoices' = out.db.invoices
    /\ pc' = "responded"
    /\ UNCHANGED <<validate_vars, entity, request, helper_vars, reader_vars, conc_vars>>

\* the redirect is followed and the message shown
Redirect ==
    /\ pc = "responded"
    /\ pc' = "idle"
    /\ request' = NoRequest
    /\ response' = NoResponse
    /\ upload' = NoUpload
    /\ UNCHANGED <<validate_vars, entity, tables, helper_vars, read_result, conc_vars>>

(***************************************************************************)
(* Properties of the Data Hub importers                                    *)
(***************************************************************************)
\* the step in which data_import handles the uploaded file
ImportStep == pc = "uploaded" /\ pc' = "responded"

\* the importer's loop over the first k rows of the request, outside any
\* transaction, from the tables as they are
LoopOver(k) ==
    ForEachRow(entity, SubSeq(request.rows, 1, k), request.user, Started(Database, None_))

\* the rows written (created or updated) by a run
Written(st) == st.created + st.updated

\* C3: when the importer's loop raises at some row of the file, the tables
\* after the failed import are the tables before it (whatever rows 1..k-1
\* wrote is rolled back) and data_import leaves one error message that
\* carries no created/updated counts.
C3_FailedImportRollsBack ==
    [][ (ImportStep /\ IsRaise(LoopOver(Len(request.rows)).error))
        => /\ tables' = tables
           /\ response'.level = "error"
           /\ response'.created = 0 /\ response'.updated = 0 ]_vars

\* a services file failed at row 2 on an unknown vendor after row 1 had
\* created a service; the service is not in the table
C3_Witness ==
    /\ pc = "responded" /\ entity = "services"
    /\ response.level = "error"
    /\ response.detail.text = "Vendor not found for service"
    /\ Len(request.rows) = 2
    /\ LoopOver(1).created = 1
    /\ services = <<>>

TableOf(key, db) ==
    CASE key = "vendors" -> db.vendors
      [] key = "cost_centers" -> db.cost_centers
      [] key = "services" -> db.services
      [] key = "contracts" -> db.contracts
      [] key = "invoices" -> db.invoices

\* the columns of an entity's file that fill the record field of the same name
CellFields(key) ==
    CASE key = "vendors" -> {"vendor_type", "tags", "primary_contact_name",
                             "primary_contact_email", "website", "notes"}
      [] key = "cost_centers" -> {"business_unit", "region"}
      [] key = "services" -> {"category", "service_code", "default_currency",
                              "default_billing_frequency", "owner_display",
                              "allocation_split", "list_price"}
      [] key = "contracts" -> {"contract_id", "contract_type", "entity", "currency", "status",
                               "annual_value", "start_date", "end_date", "renewal_date",
                               "notice_period_days", "notice_date"}
      [] key = "invoices" -> {"invoice_date", "currency", "total_amount", "notes",
                              "tax_amount", "period_start", "period_end"}

\* the cell of column f is there and is empty or whitespace-only
BlankCellOf(r, f) == f \in DOMAIN r /\ ~Truthy(_as_str(r[f]))

Cell(r, f) == _as_str(RowGet(r, f))

\* row r is upserted (its key cells are filled) and record i of the entity's
\* table in db carries its natural key
MatchesByNaturalKey(key, db, r, user, i) ==
    LET rec == TableOf(key, db)[i]
        vendor == VendorByName(db.vendors, Cell(r, "vendor_name"))
    IN  CASE key = "vendors" ->
                Truthy(Cell(r, "name")) /\ IExact(rec.name, Cell(r, "name"))
          [] key = "cost_centers" ->
                Truthy(Cell(r, "code")) /\ Truthy(Cell(r, "name")) /\ rec.code = Cell(r, "code")
          [] key = "services" ->
                /\ Truthy(Cell(r, "vendor_name")) /\ Truthy(Cell(r, "name"))
                /\ vendor # 0 /\ rec.vendor = Ref(vendor)
                /\ IExact(rec.name, Cell(r, "name"))
          [] key = "contracts" ->
                /\ Truthy(Cell(r, "vendor_name")) /\ Truthy(Cell(r, "contract_name"))
                /\ vendor # 0 /\ rec.vendor = Ref(vendor) /\ rec.owner = user
                /\ IExact(rec.contract_name, Cell(r, "contract_name"))
                /\ (Truthy(Cell(r, "contract_id"))
                       => IExact(rec.contract_id, Cell(r, "contract_id")))
          [] key = "invoices" ->
                /\ Truthy(Cell(r, "vendor_name")) /\ Truthy(Cell(r, "invoice_number"))
                /\ vendor # 0 /\ rec.vendor = Ref(vendor) /\ rec.owner = user
                /\ IExact(rec.invoice_number, Cell(r, "invoice_number"))

\* the rows of the request that match record i of the entity's table
RowsMatching(i) ==
    {k \in 1..Len(request.rows) :
        MatchesByNaturalKey(entity, Database, request.rows[k], request.user, i)}

\* in this step, a field of an existing record that is matched by rows of the
\* file, all with a blank cell for the field, keeps its value
BlankCellsKeep(keys) ==
    (ImportStep /\ entity \in keys /\ response'.level = "success")
    => \A i \in DOMAIN TableOf(entity, Database) : \A f \in CellFields(entity) :
          (RowsMatching(i) # {} /\ \A k \in RowsMatching(i) : BlankCellOf(request.rows[k], f))
          => TableOf(entity, Database')[i][f] = TableOf(entity, Database)[i][f]

\* C4 as stated: in each of the vendor, cost-center, service, contract and
\* invoice importers, a field of a matched existing record whose cell in the
\* row is blank keeps the value it had before the import.
C4_AsStated == [][BlankCellsKeep(IMPORT_ENTITIES)]_vars

\* the part of C4 that the code keeps: the vendor, service and contract importers
C4_SparseImporters == [][BlankCellsKeep({"vendors", "services", "contracts"})]_vars

\* the optional columns of a vendors file
OPTIONAL_VENDOR_FIELDS ==
    {"vendor_type", "tags", "primary_contact_name", "primary_contact_email", "website", "notes"}

\* the vendors whose name equals the text, case ignored
VendorsNamed(tbl, name) == {i \in DOMAIN tbl : IExact(tbl[i].name, name)}

\* the rows of the request that carry the vendor name, case ignored
RowsNaming(name) ==
    {k \in 1..Len(request.rows) :
        Truthy(Cell(request.rows[k], "name")) /\ IExact(Cell(request.rows[k], "name"), name)}

\* the value of column f in the last of the rows ks where it is not empty,
\* else the value given
LastNonEmpty(ks, f, otherwise) ==
    LET filled == {k \in ks : Truthy(Cell(request.rows[k], f))}
    IN  IF filled = {} THEN otherwise
        ELSE Cell(request.rows[CHOOSE k \in filled : \A j \in filled : j <= k], f)

\* C5: a vendors import creates a vendor for a name no vendor has (names
\* compared case-insensitively) and updates the one vendor that has it
\* otherwise, never adding a second; afterwards each optional field of that
\* vendor holds the file's last non-empty value for it, and otherwise the
\* value it had before the import (empty for a vendor just created).
C5_VendorUpsert ==
    [][ (ImportStep /\ entity = "vendors" /\ response'.level = "success")
        => /\ response'.created = Len(vendors') - Len(vendors)
           /\ response'.created + response'.updated =
                  Cardinality({k \in 1..Len(request.rows) : Truthy(Cell(request.rows[k], "name"))})
           /\ \A k \in 1..Len(request.rows) :
                 LET name == Cell(request.rows[k], "name")
                     before == VendorsNamed(vendors, name)
                     after == VendorsNamed(vendors', name)
                 IN  (Truthy(name) /\ Cardinality(before) <= 1)
                     => /\ Cardinality(after) = 1
                        /\ before \subseteq after
                        /\ \A i \in after : \A f \in OPTIONAL_VENDOR_FIELDS :
                              vendors'[i][f] =
                                  LastNonEmpty(RowsNaming(name), f,
                                               IF i \in before THEN vendors[i][f]
                                               ELSE EmptyStr) ]_vars

\* the vendor "Acme" of a first import (vendor_type "other", no notes) was
\* updated by a second file whose one row names it " ACME " with a blank
\* vendor_type and notes "n1"
C5_Witness ==
    /\ pc = "responded" /\ entity = "vendors"
    /\ response.level = "success" /\ response.created = 0 /\ response.updated = 1
    /\ Len(request.rows) = 1
    /\ request.rows[1].name = Str(<<" ", "A", "C", "M", "E", " ">>)
    /\ BlankCellOf(request.rows[1], "vendor_type")
    /\ Len(vendors) = 1
    /\ vendors[1].name = Str(<<"A", "C", "M", "E">>)
    /\ vendors[1].vendor_type = Str(<<"o", "t", "h", "e", "r">>)
    /\ vendors[1].notes = Str(<<"n", "1">>)

\* row k of the request is reached by the contract importer with a notice
\* date in effect that has no end date in effect or lies after it
BadNoticeDateAt(k) ==
    LET st == LoopOver(k - 1)
        r == request.rows[k]
        vendor == VendorByName(st.db.vendors, Cell(r, "vendor_name"))
        obj == ContractMatch(st.db.contracts, request.user, vendor,
                             Cell(r, "contract_name"), Cell(r, "contract_id"))
        defaults == ContractDefaults(r, request.user, vendor)
        notice_dt == EffectiveNoticeDate(defaults, st.db.contracts, obj)
        end_dt == EffectiveEndDate(defaults, st.db.contracts, obj)
    IN  /\ ~IsRaise(st.error)
        /\ Truthy(Cell(r, "vendor_name")) /\ Truthy(Cell(r, "contract_name"))
        /\ vendor # 0
        /\ ~IsRaise(ContractDefaultsRaised(defaults))
        /\ ~IsNone(notice_dt)
        /\ (IsNone(end_dt) \/ DateAfter(notice_dt, end_dt))

\* C6: when a row of a contracts file is reached with a notice date in
\* effect and no end date in effect, or with a notice date after the end
\* date, the import fails and no contract is created or updated by any row
\* of the file.
C6_NoticeDateAbortsBatch ==
    [][ (ImportStep /\ entity = "contracts"
            /\ \E k \in 1..Len(request.rows) : BadNoticeDateAt(k))
        => /\ response'.level = "error"
           /\ contracts' = contracts ]_vars

\* a contracts file whose row 1 would have been written failed at row 2,
\* whose notice date lies after the end date in effect
C6_Witness ==
    /\ pc = "responded" /\ entity = "contracts"
    /\ response.level = "error"
    /\ response.detail.text = "notice_date must be on/before end_date"
    /\ Len(request.rows) = 2
    /\ Written(LoopOver(1)) = 1
    /\ BadNoticeDateAt(2)

(***************************************************************************)
(* portal/views.py : _normalize_header, used by the table readers of the   *)
(* importers                                                               *)
(***************************************************************************)
\* _normalize_header(h) for a Python value h (None or str); returns the characters
_normalize_header(h) ==
    IF IsNone(h) THEN <<>>
    ELSE Strip(RemoveNonWord(SubHeaderSep(
             Lower(Strip(RemoveChar(h.s, BOM), Whitespace)))), {"_"})

(***************************************************************************)
(* portal/datahub_validation.py : parse_date                               *)
(***************************************************************************)
_ALLOWED_DATE_FORMATS == << [dirs |-> <<"Y", "m", "d">>, sep |-> "-"],
                            [dirs |-> <<"d", "m", "Y">>, sep |-> "."],
                            [dirs |-> <<"d", "m", "Y">>, sep |-> "/"],
                            [dirs |-> <<"m", "d", "Y">>, sep |-> "/"],
                            [dirs |-> <<"d", "m", "Y">>, sep |-> "-"],
                            [dirs |-> <<"m", "d", "Y">>, sep |-> "-"] >>

\* "for fmt in fmts: try: return strptime(s, fmt).date()": the date of the
\* first format that reads s, or invalid when the loop ends
RECURSIVE FirstFormat(_, _)
FirstFormat(s, fmts) ==
    IF fmts = <<>> THEN InvalidDate
    ELSE Bind(StrpDate(s, Head(fmts).dirs, Head(fmts).sep), LAMBDA d :
             IF d.t = "date" THEN d ELSE FirstFormat(s, Tail(fmts)))

\* parse_date with the two slash formats and the two hyphen formats swapped
parse_dateMonthFirst(value) ==
    IF IsNone(value) \/ value.t = "date" THEN value
    ELSE Bind(Strip(value.s, Whitespace), LAMBDA s :
        IF s = <<>> \/ s = <<EMDASH>> \/ s = <<"-">> THEN None_
        ELSE Bind(FirstFormat(s, [k \in 1..6 |->
                      _ALLOWED_DATE_FORMATS[CASE k = 3 -> 4 [] k = 4 -> 3 [] k = 5 -> 6
                                               [] k = 6 -> 5 [] OTHER -> k]]), LAMBDA d :
            IF d.t = "date" THEN d
            ELSE Bind(FromIsoFormat(s), LAMBDA iso :
                IF iso.t = "date" THEN iso ELSE Raise("Invalid date", value))))

\* parse_date(value) for a Python value that is None, a date or a str
parse_date(value) ==
    IF IsNone(value) \/ value.t = "date" THEN value
    ELSE Bind(Strip(value.s, Whitespace), LAMBDA s :
        IF s = <<>> \/ s = <<EMDASH>> \/ s = <<"-">> THEN None_
        ELSE Bind(FirstFormat(s, _ALLOWED_DATE_FORMATS), LAMBDA d :
            IF d.t = "date" THEN d
            ELSE Bind(FromIsoFormat(s), LAMBDA iso :
                IF iso.t = "date" THEN iso ELSE Raise("Invalid date", value))))

(***************************************************************************)
(* The helper functions called on their own: one call, one result          *)
(***************************************************************************)
MaxHeaderLen == 3    \* characters in a header text handed to the normalisers

\* the characters header texts are made of
HeaderChars == {"A", "b", " ", "\t", "-", "_", "!", BOM, DOUBLE_STRUCK_C}

\* the texts of up to n characters over chars
Texts(chars, n) == UNION {[1..k -> chars] : k \in 0..n}

HeaderArgs == {None_} \cup {Str(s) : s \in Texts(HeaderChars, MaxHeaderLen)}

MaxCellLen == 4      \* characters in a cell text handed to parse_decimal

\* the characters decimal cells are made of
DecimalChars == {"1", "5", ",", ".", " ", "-", "a"}

DecimalArgs ==
    {None_, Dec(1, 15, 1), Str(<<EMDASH>>), Str(<<" ", EMDASH>>),
     Str(<<"1", ",", "2", "3", "4", ".", "5", "6">>),
     Str(<<"1", " ", "2", "3", "4", ",", "5", "6">>),
     Str(<<"1", ".", "2", "3", "4", ",", "5", "6">>)}
    \cup {Str(s) : s \in Texts(DecimalChars, MaxCellLen)}

\* day and month numbers as cells spell them, and the separators of the formats
DateNumbers == {<<"1">>, <<"0", "1">>, <<"5">>, <<"1", "2">>, <<"1", "3">>, <<"2", "0">>,
                <<"3", "0">>, <<"3", "1">>}
DateSeparators == {"/", "-", "."}

DateArgs ==
    {None_, Date(2025, 12, 20), Str(<<>>), Str(<<" ">>), Str(<<"-">>), Str(<<EMDASH>>),
     Str(<<"2", "0", "2", "5", "-", "1", "2", "-", "2", "0">>),
     Str(<<" ", "2", "0", "2", "5", "-", "1", "2", "-", "2", "0">>),
     Str(<<"2", "0", "2", "5", "-", "0", "2", "-", "3", "0">>),
     Str(<<"2", "0", "2", "5", "-", "1", "2", "-", "2", "0", "T", "1", "0", ":", "0", "0">>),
     Str(<<"2", "0", "2", "5", "-", "1", "2", "-", "2", "0", " ", "2", "3", ":", "5", "9">>),
     Str(<<"2", "0", "2", "5", "-", "1", "2", "-", "2", "0", "T", "2", "4", ":", "0", "0">>),
     Str(<<"3", "1", "/", "3", "1", "/", "2", "0", "2", "5">>),
     Str(<<"1", "/", "2", "/", "2", "5">>),
     Str(<<"a", "b", "c">>)}
    \cup {Str(a \o <<sep>> \o b \o <<sep, "2", "0", "2", "5">>) :
              a \in DateNumbers, b \in DateNumbers, sep \in DateSeparators}

IntArgs ==
    {None_, Bool(TRUE), Bool(FALSE), IntVal(90), IntVal(0), IntVal(-7),
     Str(<<>>), Str(<<" ">>), Str(<<"9", "0", ".", "0">>), Str(<<"9", "0", ".", "9">>),
     Str(<<"-", "9", "0", ".", "9">>), Str(<<"9", "0", ",", "5">>), Str(<<" ", "9", "0">>),
     Str(<<"0", ".", "5">>), Str(<<"a", "b", "c">>), Str(<<"1", ".", "2", ".", "3">>),
     Str(<<"9", "0", " ", "d", "a", "y", "s">>), Str(<<"-">>)}

HelperCalls ==
    {[fn |-> "normalize_header", arg |-> h] : h \in HeaderArgs}
    \cup {[fn |-> "parse_decimal", arg |-> v] : v \in DecimalArgs}
    \cup {[fn |-> "parse_date", arg |-> v] : v \in DateArgs}
    \cup {[fn |-> "_parse_int", arg |-> v] : v \in IntArgs}

InitHelpers ==
    /\ ConcurrencyUnused
    /\ pc = "call"
    /\ spec = COST_CENTERS_SPEC /\ headers_in_file = <<>> /\ raw_rows = <<>> /\ result = NoResult
    /\ DataHubUnused
    /\ ReadersUnused
    /\ call \in HelperCalls
    /\ returned = None_

\* a header is normalised by the engine's normalize_header and by the
\* readers' _normalize_header
NormalizeHeader ==
    /\ pc = "call" /\ call.fn = "normalize_header"
    /\ returned' = [normalize_header |-> normalize_header(call.arg),
                    _normalize_header |-> _normalize_header(call.arg)]
    /\ pc' = "returned"
    /\ UNCHANGED <<validate_vars, import_vars, reader_vars, call, conc_vars>>

\* the calls parse_decimal(value), parse_date(value), _parse_int(value)
ParseDecimal ==
    /\ pc = "call" /\ call.fn = "parse_decimal"
    /\ returned' = parse_decimal(call.arg)
    /\ pc' = "returned"
    /\ UNCHANGED <<validate_vars, import_vars, reader_vars, call, conc_vars>>

ParseDate ==
    /\ pc = "call" /\ call.fn = "parse_date"
    /\ returned' = parse_date(call.arg)
    /\ pc' = "returned"
    /\ UNCHANGED <<validate_vars, import_vars, reader_vars, call, conc_vars>>

ParseInt ==
    /\ pc = "call" /\ call.fn = "_parse_int"
    /\ returned' = _parse_int(call.arg)
    /\ pc' = "returned"
    /\ UNCHANGED <<validate_vars, import_vars, reader_vars, call, conc_vars>>

NextHelpers == NormalizeHeader \/ ParseDecimal \/ ParseDate \/ ParseInt

SpecHelpers == InitHelpers /\ [][NextHelpers]_vars

(***************************************************************************)
(* Properties of the helper functions                                      *)
(***************************************************************************)
Normalized == pc = "returned" /\ call.fn = "normalize_header"

\* a key free of whitespace and hyphens, with no underscore at either end
CleanKey(n) ==
    /\ \A k \in 1..Len(n) : n[k] \notin Whitespace \cup {"-"}
    /\ n # <<>> => (n[1] # "_" /\ n[Len(n)] # "_")

\* C11 (as stated): for every header h, normalize(h) has no uppercase letter,
\* no whitespace, no hyphen, no underscore at either end, and normalising it
\* again changes nothing; for normalize_header and for _normalize_header.
C11_AsStated ==
    Normalized =>
        /\ \A k \in 1..Len(returned.normalize_header) :
              ~IsUpperChar(returned.normalize_header[k])
        /\ \A k \in 1..Len(returned._normalize_header) :
              ~IsUpperChar(returned._normalize_header[k])
        /\ CleanKey(returned.normalize_header)
        /\ CleanKey(returned._normalize_header)
        /\ normalize_header(Str(returned.normalize_header)) = returned.normalize_header
        /\ _normalize_header(Str(returned._normalize_header)) = returned._normalize_header

\* C11 (amended): for every header h, normalize(h) has no letter that
\* str.lower() changes, no whitespace, no hyphen, no underscore at either end,
\* and normalising it again changes nothing; normalize_header and
\* _normalize_header give the same key.
C11_NormalizedKey ==
    Normalized =>
        /\ Lower(returned.normalize_header) = returned.normalize_header
        /\ CleanKey(returned.normalize_header)
        /\ normalize_header(Str(returned.normalize_header)) = returned.normalize_header
        /\ _normalize_header(Str(returned.normalize_header)) = returned.normalize_header
        /\ returned._normalize_header = returned.normalize_header

\* a header with an uppercase letter, a separator run and an underscore at the
\* end was normalised to a one-letter key
C11_Witness ==
    /\ Normalized
    /\ call.arg = Str(<<"A", "-", "_">>)
    /\ returned.normalize_header = <<"a">>

\* the digits of a text, in order
DigitsIn(s) == SelectSeq(s, LAMBDA c : c \in Digits)

\* an optional sign, then digits with at most one point among them
IsDecimalLiteral(s) ==
    LET body == IF s # <<>> /\ s[1] \in {"+", "-"} THEN Tail(s) ELSE s
    IN  /\ \A k \in 1..Len(body) : body[k] \in Digits \cup {"."}
        /\ Cardinality({k \in 1..Len(body) : body[k] = "."}) <= 1
        /\ DigitsIn(body) # <<>>

\* the decimal a literal denotes: its digits, scaled by the digits after the point
ExactDecimal(s) ==
    LET point == {k \in 1..Len(s) : s[k] = "."}
    IN  Dec(IF s[1] = "-" THEN -1 ELSE 1, DigitsToInt(DigitsIn(s)),
            IF point = {} THEN 0 ELSE Len(s) - (CHOOSE k \in point : TRUE))

\* the text parse_decimal is said to hand to Decimal: trimmed, spaces dropped,
\* "," dropped when a "." is there too and turned into "." otherwise
CleanedDecimalText(text) ==
    LET s == RemoveChar(Strip(text, Whitespace), " ")
    IN  IF Contains(s, ",") /\ Contains(s, ".")
        THEN SelectSeq(s, LAMBDA c : c # ",")
        ELSE [k \in 1..Len(s) |-> IF s[k] = "," THEN "." ELSE s[k]]

ParsedDecimalText == pc = "returned" /\ call.fn = "parse_decimal" /\ IsStr(call.arg)

\* C17: parse_decimal on a string returns None for "", "-" and an em-dash
\* (after trimming); otherwise every "," is removed when a "." is present and
\* replaced by "." when none is, and the result is the exact decimal of the
\* cleaned string, or a ValueError when the cleaned string is not a decimal
\* literal; "1,234.56" and "1 234,56" give 1234.56 and "abc"-like text raises.
C17_ParseDecimal ==
    ParsedDecimalText =>
        LET s == Strip(call.arg.s, Whitespace)
            cleaned == CleanedDecimalText(call.arg.s)
        IN  /\ s \in {<<>>, <<"-">>, <<EMDASH>>} => returned = None_
            /\ (s \notin {<<>>, <<"-">>, <<EMDASH>>} /\ IsDecimalLiteral(cleaned))
                   => returned = ExactDecimal(cleaned)
            /\ (s \notin {<<>>, <<"-">>, <<EMDASH>>} /\ ~IsDecimalLiteral(cleaned))
                   => (IsRaise(returned) /\ returned.text = "Invalid decimal")
            /\ call.arg \in {Str(<<"1", ",", "2", "3", "4", ".", "5", "6">>),
                             Str(<<"1", " ", "2", "3", "4", ",", "5", "6">>)}
                   => returned = Dec(1, 123456, 2)
            /\ call.arg = Str(<<"a", "a", "a">>) => IsRaise(returned)

\* "1,234.56" was parsed to 1234.56
C17_Witness ==
    /\ ParsedDecimalText
    /\ call.arg = Str(<<"1", ",", "2", "3", "4", ".", "5", "6">>)
    /\ returned = Dec(1, 123456, 2)

ParsedDateText == pc = "returned" /\ call.fn = "parse_date" /\ IsStr(call.arg)

\* a text "a<sep>b<sep>yyyy" of the cells tried: its three parts and separator
NumbersDate(s) ==
    LET sep == IF Len(s) >= 3 /\ s[2] \in DateSeparators THEN s[2]
               ELSE IF Len(s) >= 3 THEN s[3] ELSE ""
        parts == IF sep \in DateSeparators THEN Split(s, sep) ELSE <<>>
    IN  IF Len(parts) = 3 /\ parts[1] \in DateNumbers /\ parts[2] \in DateNumbers
           /\ Len(parts[3]) = 4 /\ AllDigits(parts[3])
        THEN [ok |-> TRUE, sep |-> sep, a |-> DigitsToInt(parts[1]),
              b |-> DigitsToInt(parts[2]), y |-> DigitsToInt(parts[3])]
        ELSE [ok |-> FALSE, sep |-> "", a |-> 0, b |-> 0, y |-> 0]

IsDayOf(y, m, d) == m \in 1..12 /\ d \in 1..DaysInMonth(y, m)

\* what the claim says of a text "a<sep>b<sep>yyyy": day-first when that is a
\* date; for "/" and "-" month-first when only that is a date
DateReadInOrder(n, value) ==
    IF IsDayOf(n.y, n.b, n.a) THEN returned = Date(n.y, n.b, n.a)
    ELSE IF n.sep # "." /\ IsDayOf(n.y, n.a, n.b) THEN returned = Date(n.y, n.a, n.b)
    ELSE IsRaise(returned)

\* the claim's cases and examples, apart from "no format matches"
DateFormatsInOrder ==
    LET s == Strip(call.arg.s, Whitespace)
        n == NumbersDate(s)
    IN  /\ s \in {<<>>, <<"-">>, <<EMDASH>>} => returned = None_
        /\ n.ok => DateReadInOrder(n, call.arg)
        /\ (n.ok /\ n.sep # "." /\ n.a <= 12 /\ n.b <= 12) => returned = Date(n.y, n.b, n.a)
        /\ (n.ok /\ n.sep # "." /\ n.a <= 12 /\ n.b > 12 /\ n.b <= DaysInMonth(n.y, n.a))
               => returned = Date(n.y, n.a, n.b)
        /\ s \in {<<"2", "0", ".", "1", "2", ".", "2", "0", "2", "5">>,
                  <<"2", "0", "2", "5", "-", "1", "2", "-", "2", "0">>}
               => returned = Date(2025, 12, 20)
        /\ s = <<"3", "1", "/", "3", "1", "/", "2", "0", "2", "5">> => IsRaise(returned)

\* a text none of the six formats reads: not "a<sep>b<sep>yyyy" with day and
\* month in range, not a date "yyyy-mm-dd"
NoFormatMatches(s) ==
    LET n == NumbersDate(s)
    IN  /\ ~(n.ok /\ (IsDayOf(n.y, n.b, n.a) \/ (n.sep # "." /\ IsDayOf(n.y, n.a, n.b))))
        /\ ~(Len(s) = 10 /\ FromIsoFormat(s).t = "date")

\* C19 (as stated): parse_date on a string returns the date of the first of
\* YYYY-MM-DD, DD.MM.YYYY, DD/MM/YYYY, MM/DD/YYYY, DD-MM-YYYY, MM-DD-YYYY that
\* matches (day-first when both numbers are at most 12, month-first when only
\* the second is above 12), None for "", and raises on a string that matches
\* no format.
C19_AsStated ==
    ParsedDateText =>
        /\ DateFormatsInOrder
        /\ (Strip(call.arg.s, Whitespace) \notin {<<>>, <<"-">>, <<EMDASH>>}
            /\ NoFormatMatches(Strip(call.arg.s, Whitespace))) => IsRaise(returned)

\* an ISO date followed by one separator character and a time HH:MM
IsIsoDateTime(s) ==
    /\ Len(s) = 16
    /\ FromIsoFormat(SubSeq(s, 1, 10)).t = "date"
    /\ IsoTime(SubSeq(s, 12, 16))

\* C19 (amended): as stated, except that a string matching none of the six
\* formats is then read as an ISO-8601 date-time, whose date part is returned;
\* parse_date raises only when that fails too.
C19_ParseDate ==
    ParsedDateText =>
        LET s == Strip(call.arg.s, Whitespace)
        IN  /\ DateFormatsInOrder
            /\ (s \notin {<<>>, <<"-">>, <<EMDASH>>} /\ NoFormatMatches(s)) =>
                   IF IsIsoDateTime(s)
                   THEN returned = Date(DigitsToInt(SubSeq(s, 1, 4)), DigitsToInt(SubSeq(s, 6, 7)),
                                        DigitsToInt(SubSeq(s, 9, 10)))
                   ELSE IsRaise(returned) /\ returned.text = "Invalid date"

\* "12/20/2025" was read month-first and "01/02/2025"-like text day-first
C19_Witness ==
    /\ ParsedDateText
    /\ call.arg = Str(<<"1", "2", "/", "2", "0", "/", "2", "0", "2", "5">>)
    /\ returned = Date(2025, 12, 20)

ParsedInt == pc = "returned" /\ call.fn = "_parse_int"

\* C20: _parse_int returns a native integer unchanged, None for a boolean, for
\* None and for an empty or whitespace-only string; any other string is parsed
\* as a decimal and truncated to an integer ("90.0" gives 90); non-numeric text
\* raises.
C20_ParseInt ==
    ParsedInt =>
        /\ call.arg.t = "int" => returned = call.arg
        /\ call.arg.t \in {"bool", "None"} => returned = None_
        /\ (IsStr(call.arg) /\ \A k \in 1..Len(call.arg.s) : call.arg.s[k] \in Whitespace)
               => returned = None_
        /\ call.arg = Str(<<"9", "0", ".", "0">>) => returned = IntVal(90)
        /\ call.arg = Str(<<"9", "0", ".", "9">>) => returned = IntVal(90)
        /\ call.arg = Str(<<"-", "9", "0", ".", "9">>) => returned = IntVal(-90)
        /\ call.arg = Str(<<"0", ".", "5">>) => returned = IntVal(0)
        /\ (IsStr(call.arg) /\ \E k \in 1..Len(call.arg.s) : call.arg.s[k] \in LowerLetters)
               => (IsRaise(returned) /\ returned.text = "Invalid integer value")
        /\ (IsStr(call.arg) /\ IsDecimalLiteral(Strip(call.arg.s, Whitespace))
            /\ ~Contains(call.arg.s, ","))
               => LET d == ExactDecimal(Strip(call.arg.s, Whitespace))
                  IN  /\ returned.t = "int"
                      /\ returned.n * d.sign >= 0
                      /\ returned.n * d.sign * Pow10(d.scale) <= d.coeff
                      /\ d.coeff < (returned.n * d.sign + 1) * Pow10(d.scale)

\* "90.9" was truncated to 90
C20_Witness ==
    /\ ParsedInt
    /\ call.arg = Str(<<"9", "0", ".", "9">>)
    /\ returned = IntVal(90)

\* a services file whose only row names the vendor "acme" and the service
\* "Data" with the list price "1,234.56" has been handled
ThousandsPriceImported ==
    /\ pc = "responded" /\ entity = "services"
    /\ Len(request.rows) = 1
    /\ _as_str(RowGet(request.rows[1], "vendor_name")) = Str(<<"a", "c", "m", "e">>)
    /\ _as_str(RowGet(request.rows[1], "name")) = Str(<<"D", "a", "t", "a">>)
    /\ RowGet(request.rows[1], "list_price") = Str(<<"1", ",", "2", "3", "4", ".", "5", "6">>)

\* C18 (as stated): the importers convert decimal cells with the separator
\* rules of the Value Parsers: a service row whose list_price cell is
\* "1,234.56" is imported, and the service stores 1234.56, rather than the
\* import being aborted.
C18_AsStated ==
    ThousandsPriceImported =>
        /\ response.level = "success"
        /\ \E i \in DOMAIN services :
              /\ services[i].name = Str(<<"D", "a", "t", "a">>)
              /\ services[i].list_price = parse_decimal(RowGet(request.rows[1], "list_price"))
              /\ services[i].list_price = Dec(1, 123456, 2)

(***************************************************************************)
(* Table readers: bytes to text.  A payload is a sequence of bytes 0..255; *)
(* a text is a sequence of characters.  The decoders read sequences of one *)
(* to three bytes (the payloads tried hold no lead byte F0..F4).           *)
(***************************************************************************)
REPLACEMENT == "U+FFFD"            \* the replacement character

\* the character of a code point, for the code points the payloads decode to
CharOf(cp) ==
    CASE cp = 65279 -> BOM [] cp = 65533 -> REPLACEMENT
      [] cp = 1040 -> "U+0410" [] cp = 1048 -> "U+0418" [] cp = 1056 -> "U+0420"
      [] cp = 1106 -> "U+0452" [] cp = 1103 -> "U+044F"
      [] cp = 1087 -> "U+043F" [] cp = 187 -> "U+00BB" [] cp = 1111 -> "U+0457"
      [] cp < 128 ->
            CHOOSE c \in {"\t", "\n", "\r", " ", ",", "-", ".", "/", "_"} \cup Digits
                             \cup UpperLetters \cup LowerLetters : CodePoint(c) = cp

IsContinuation(b) == b \in 128..191

\* the second byte a three-byte lead accepts
SecondByteOk(lead, b) ==
    CASE lead = 224 -> b \in 160..191
      [] lead = 237 -> b \in 128..159
      [] OTHER -> IsContinuation(b)

\* one step of the UTF-8 decoder at position i: the code point read (-1 for
\* an invalid sequence) and the number of bytes it takes; an invalid
\* sequence takes its longest well-formed prefix, at least one byte
Utf8Step(raw, i) ==
    Bind(raw[i], LAMBDA b1 :
    Bind(IF i + 1 <= Len(raw) THEN raw[i + 1] ELSE -1, LAMBDA b2 :
    Bind(IF i + 2 <= Len(raw) THEN raw[i + 2] ELSE -1, LAMBDA b3 :
        IF b1 < 128 THEN [cp |-> b1, n |-> 1]
        ELSE IF b1 \in 194..223
        THEN (IF IsContinuation(b2) THEN [cp |-> (b1 - 192) * 64 + (b2 - 128), n |-> 2]
              ELSE [cp |-> -1, n |-> 1])
        ELSE IF b1 \in 224..239
        THEN (IF SecondByteOk(b1, b2) /\ IsContinuation(b3)
              THEN [cp |-> (b1 - 224) * 4096 + (b2 - 128) * 64 + (b3 - 128), n |-> 3]
              ELSE IF SecondByteOk(b1, b2) THEN [cp |-> -1, n |-> 2]
              ELSE [cp |-> -1, n |-> 1])
        ELSE [cp |-> -1, n |-> 1])))

\* the code points of raw from position i on, -1 standing for each invalid sequence
RECURSIVE Utf8CodePoints(_, _)
Utf8CodePoints(raw, i) ==
    IF i > Len(raw) THEN <<>>
    ELSE IF \A k \in i..Len(raw) : raw[k] < 128
    THEN SubSeq(raw, i, Len(raw))          \* one-byte sequences only
    ELSE Bind(Utf8Step(raw, i), LAMBDA step :
             <<step.cp>> \o Utf8CodePoints(raw, i + step.n))

DecodeError == [t |-> "raise", text |-> "UnicodeDecodeError", arg |-> None_]

\* the text of code points cps; errors = "strict" raises on an invalid
\* sequence, errors = "replace" puts U+FFFD for it
TextOf(cps, errors) ==
    IF errors = "strict" /\ \E k \in 1..Len(cps) : cps[k] = -1 THEN DecodeError
    ELSE Str([k \in 1..Len(cps) |-> IF cps[k] = -1 THEN REPLACEMENT ELSE CharOf(cps[k])])

\* the code point cp1251 gives a byte, -1 for the byte 0x98 it leaves undefined
\* (of 0x80..0xBF the table lists the bytes the payloads hold)
Cp1251CodePoint(b) ==
    CASE b < 128 -> b
      [] b = 152 -> -1
      [] b = 144 -> 1106 [] b = 187 -> 187 [] b = 191 -> 1111
      [] b \in 192..255 -> 1040 + (b - 192)

\* raw.decode(enc, errors) for enc in utf-8-sig, utf-8, cp1251
Decode(raw, enc, errors) ==
    CASE enc = "utf-8-sig" ->
            TextOf(Utf8CodePoints(raw, IF Len(raw) >= 3 /\ SubSeq(raw, 1, 3) = <<239, 187, 191>>
                                       THEN 4 ELSE 1), errors)
      [] enc = "utf-8" -> TextOf(Utf8CodePoints(raw, 1), errors)
      [] enc = "cp1251" -> TextOf([k \in 1..Len(raw) |-> Cp1251CodePoint(raw[k])], errors)

\* "for enc in encodings: try: text = raw.decode(enc); break; except: text = None"
RECURSIVE FirstDecoding(_, _)
FirstDecoding(raw, encodings) ==
    IF encodings = <<>> THEN None_
    ELSE Bind(Decode(raw, Head(encodings), "strict"), LAMBDA text :
             IF IsRaise(text) THEN FirstDecoding(raw, Tail(encodings)) ELSE text)

\* the text read_csv (datahub_validation.py) decodes the payload to
read_csvText(raw) ==
    Bind(FirstDecoding(raw, <<"utf-8-sig", "utf-8", "cp1251">>), LAMBDA text :
        IF IsNone(text) THEN Decode(raw, "utf-8", "replace") ELSE text)

\* the text _read_csv (views.py) decodes the payload to
_read_csvText(raw) ==
    Bind(Decode(raw, "utf-8-sig", "strict"), LAMBDA text :
        IF IsRaise(text) THEN Decode(raw, "cp1251", "replace") ELSE text)


(***************************************************************************)
(* Table readers: text to rows (csv.DictReader).  A dict is the sequence   *)
(* of its items <<key, value>>, in insertion order.  The texts tried hold  *)
(* no quote character and no carriage return outside a line end.           *)
(***************************************************************************)
List(xs) == [t |-> "list", items |-> xs]

\* dict(pairs) added to the dict acc: a key keeps the place where it first
\* came and takes the value it last got
RECURSIVE DictOf(_, _)
DictOf(pairs, acc) ==
    IF pairs = <<>> THEN acc
    ELSE Bind(Head(pairs), LAMBDA p :
         Bind({i \in 1..Len(acc) : acc[i][1] = p[1]}, LAMBDA at :
             DictOf(Tail(pairs),
                    IF at = {} THEN Append(acc, p)
                    ELSE [i \in 1..Len(acc) |-> IF i \in at THEN p ELSE acc[i]])))

Keys(d) == {d[i][1] : i \in 1..Len(d)}

\* the lines of a text, without their line ends
Lines(text) ==
    Bind(Split(text, "\n"), LAMBDA parts :
    Bind(IF parts[Len(parts)] = <<>> THEN SubSeq(parts, 1, Len(parts) - 1) ELSE parts, LAMBDA ls :
        [i \in 1..Len(ls) |->
            IF ls[i] # <<>> /\ ls[i][Len(ls[i])] = "\r"
            THEN SubSeq(ls[i], 1, Len(ls[i]) - 1) ELSE ls[i]]))

\* csv.reader: one list of fields per line, the empty list for an empty line
CsvRecords(text) ==
    Bind(Lines(text), LAMBDA ls :
        [i \in 1..Len(ls) |-> IF ls[i] = <<>> THEN <<>> ELSE Split(ls[i], ",")])

\* DictReader.fieldnames: the first record, None for a text with no record
Fieldnames(records) ==
    IF records = <<>> THEN None_ ELSE List([i \in 1..Len(records[1]) |-> Str(records[1][i])])

\* DictReader.__next__: dict(zip(fieldnames, row)), the cells beyond the
\* header under the key None (restkey), None for the cells missing (restval)
DictReaderRow(fieldnames, row) ==
    Bind(Len(fieldnames), LAMBDA lf :
    Bind(Len(row), LAMBDA lr :
        DictOf([i \in 1..(IF lf < lr THEN lf ELSE lr) |-> <<fieldnames[i], Str(row[i])>>]
               \o (IF lf < lr
                   THEN << <<None_, List([j \in 1..(lr - lf) |-> Str(row[lf + j])])>> >>
                   ELSE [j \in 1..(lf - lr) |-> <<fieldnames[lr + j], None_>>]),
               <<>>)))

\* list(csv.DictReader(io.StringIO(text))): rows equal to [] are passed over
DictReader(text) ==
    Bind(CsvRecords(text), LAMBDA records :
        IF records = <<>> THEN <<>>
        ELSE Bind(SelectSeq(Tail(records), LAMBDA row : row # <<>>), LAMBDA data :
                 [i \in 1..Len(data) |-> DictReaderRow(Fieldnames(records).items, data[i])]))

\* read_csv(upload) of datahub_validation.py: rows keyed by the original headers
read_csv(raw) ==
    Bind(read_csvText(raw), LAMBDA text :
    Bind(Fieldnames(CsvRecords(text.s)), LAMBDA fieldnames :
        [t |-> "table", text |-> text,
         rows |-> DictReader(text.s),
         headers |-> IF IsNone(fieldnames) THEN <<>> ELSE fieldnames.items]))

\* _read_csv(uploaded_file) of views.py: rows keyed by _normalize_header(k)
_read_csv(raw) ==
    Bind(_read_csvText(raw), LAMBDA text :
    Bind(DictReader(text.s), LAMBDA rs :
        [t |-> "table", text |-> text,
         rows |-> [i \in 1..Len(rs) |->
                      DictOf([j \in 1..Len(rs[i]) |->
                                 <<_normalize_header(rs[i][j][1]), rs[i][j][2]>>], <<>>)]]))

(***************************************************************************)
(* Table readers: worksheets.  A sheet is what ws.iter_rows(values_only=   *)
(* True) yields: rows of equal length, each a sequence of cell values.     *)
(***************************************************************************)
\* "all(v is None or str(v).strip() == '' for v in values)"
AllBlank(values) == \A i \in 1..Len(values) : IsBlankCell(values[i])

\* read_xlsx(upload) of datahub_validation.py: the first row is the header row
read_xlsx(sheet) ==
    IF sheet = <<>> \/ Head(sheet) = <<>> THEN [t |-> "table", rows |-> <<>>, headers |-> <<>>]
    ELSE Bind([i \in 1..Len(Head(sheet)) |-> _as_str(Head(sheet)[i])], LAMBDA headers :
         Bind(SelectSeq(Tail(sheet), LAMBDA r : ~AllBlank(r)), LAMBDA data :
             [t |-> "table",
              rows |-> [k \in 1..Len(data) |->
                          DictOf(SelectSeq([i \in 1..Len(headers) |->
                                               <<headers[i],
                                                 IF i <= Len(data[k]) THEN data[k][i] ELSE None_>>],
                                           LAMBDA p : p[1] # EmptyStr), <<>>)],
              headers |-> headers]))

\* the loop of _read_xlsx from row k on; header is None until a row that is
\* not entirely blank has been met
RECURSIVE _read_xlsxLoop(_, _, _, _)
_read_xlsxLoop(sheet, k, header, rows) ==
    IF k > Len(sheet) THEN rows
    ELSE Bind(sheet[k], LAMBDA values :
        IF AllBlank(values) THEN _read_xlsxLoop(sheet, k + 1, header, rows)
        ELSE IF IsNone(header)
        THEN _read_xlsxLoop(sheet, k + 1,
                 List([i \in 1..Len(values) |-> _normalize_header(_as_str(values[i]))]), rows)
        ELSE _read_xlsxLoop(sheet, k + 1, header,
                 Append(rows,
                        DictOf(SelectSeq([i \in 1..Len(header.items) |->
                                             <<header.items[i],
                                               IF i > Len(values) \/ IsNone(values[i])
                                               THEN EmptyStr ELSE values[i]>>],
                                         LAMBDA p : p[1] # <<>>), <<>>))))

\* _read_xlsx(uploaded_file) of views.py
_read_xlsx(sheet) == [t |-> "table", rows |-> _read_xlsxLoop(sheet, 1, None_, <<>>)]


(***************************************************************************)
(* From the rows of a reader to the rows the importers read.  A reader     *)
(* keys a row by the characters of the normalized header; the importers    *)
(* ask for columns by name.                                                *)
(***************************************************************************)
\* the columns the importers ask for: <<spelling, name>>
COLUMNS ==
    { <<<<"n", "a", "m", "e">>, "name">>,
      <<<<"v", "e", "n", "d", "o", "r", "_", "t", "y", "p", "e">>, "vendor_type">>,
      <<<<"t", "a", "g", "s">>, "tags">>,
      <<<<"p", "r", "i", "m", "a", "r", "y", "_", "c", "o", "n", "t", "a", "c", "t", "_", "n", "a", "m", "e">>, "primary_contact_name">>,
      <<<<"p", "r", "i", "m", "a", "r", "y", "_", "c", "o", "n", "t", "a", "c", "t", "_", "e", "m", "a", "i", "l">>, "primary_contact_email">>,
      <<<<"w", "e", "b", "s", "i", "t", "e">>, "website">>,
      <<<<"n", "o", "t", "e", "s">>, "notes">>,
      <<<<"c", "o", "d", "e">>, "code">>,
      <<<<"b", "u", "s", "i", "n", "e", "s", "s", "_", "u", "n", "i", "t">>, "business_unit">>,
      <<<<"r", "e", "g", "i", "o", "n">>, "region">>,
      <<<<"v", "e", "n", "d", "o", "r", "_", "n", "a", "m", "e">>, "vendor_name">>,
      <<<<"c", "a", "t", "e", "g", "o", "r", "y">>, "category">>,
      <<<<"s", "e", "r", "v", "i", "c", "e", "_", "c", "o", "d", "e">>, "service_code">>,
      <<<<"d", "e", "f", "a", "u", "l", "t", "_", "c", "u", "r", "r", "e", "n", "c", "y">>, "default_currency">>,
      <<<<"d", "e", "f", "a", "u", "l", "t", "_", "b", "i", "l", "l", "i", "n", "g", "_", "f", "r", "e", "q", "u", "e", "n", "c", "y">>, "default_billing_frequency">>,
      <<<<"o", "w", "n", "e", "r", "_", "d", "i", "s", "p", "l", "a", "y">>, "owner_display">>,
      <<<<"l", "i", "s", "t", "_", "p", "r", "i", "c", "e">>, "list_price">>,
      <<<<"a", "l", "l", "o", "c", "a", "t", "i", "o", "n", "_", "s", "p", "l", "i", "t">>, "allocation_split">>,
      <<<<"c", "o", "n", "t", "r", "a", "c", "t", "_", "n", "a", "m", "e">>, "contract_name">>,
      <<<<"c", "o", "n", "t", "r", "a", "c", "t", "_", "i", "d">>, "contract_id">>,
      <<<<"c", "o", "n", "t", "r", "a", "c", "t", "_", "t", "y", "p", "e">>, "contract_type">>,
      <<<<"e", "n", "t", "i", "t", "y">>, "entity">>,
      <<<<"a", "n", "n", "u", "a", "l", "_", "v", "a", "l", "u", "e">>, "annual_value">>,
      <<<<"c", "u", "r", "r", "e", "n", "c", "y">>, "currency">>,
      <<<<"s", "t", "a", "r", "t", "_", "d", "a", "t", "e">>, "start_date">>,
      <<<<"e", "n", "d", "_", "d", "a", "t", "e">>, "end_date">>,
      <<<<"r", "e", "n", "e", "w", "a", "l", "_", "d", "a", "t", "e">>, "renewal_date">>,
      <<<<"n", "o", "t", "i", "c", "e", "_", "p", "e", "r", "i", "o", "d", "_", "d", "a", "y", "s">>, "notice_period_days">>,
      <<<<"n", "o", "t", "i", "c", "e", "_", "d", "a", "t", "e">>, "notice_date">>,
      <<<<"s", "t", "a", "t", "u", "s">>, "status">>,
      <<<<"i", "n", "v", "o", "i", "c", "e", "_", "n", "u", "m", "b", "e", "r">>, "invoice_number">>,
      <<<<"i", "n", "v", "o", "i", "c", "e", "_", "d", "a", "t", "e">>, "invoice_date">>,
      <<<<"t", "o", "t", "a", "l", "_", "a", "m", "o", "u", "n", "t">>, "total_amount">>,
      <<<<"t", "a", "x", "_", "a", "m", "o", "u", "n", "t">>, "tax_amount">>,
      <<<<"p", "e", "r", "i", "o", "d", "_", "s", "t", "a", "r", "t">>, "period_start">>,
      <<<<"p", "e", "r", "i", "o", "d", "_", "e", "n", "d">>, "period_end">> }

ColumnName(k) == (CHOOSE p \in COLUMNS : p[1] = k)[2]

\* the row as the importers see it: r.get(name) for the columns they ask for
RowRecord(d) ==
    Bind({i \in 1..Len(d) : \E p \in COLUMNS : p[1] = d[i][1]}, LAMBDA known :
        [f \in {ColumnName(d[i][1]) : i \in known} |->
            d[CHOOSE i \in known : ColumnName(d[i][1]) = f][2]])

(***************************************************************************)
(* Choosing the reader: read_tabular_file (datahub_validation.py) and      *)
(* _detect_format, _read_table (views.py).  An upload is [name, format,    *)
(* content]: the file name, the ?format= query parameter, and the content, *)
(* either [kind |-> "bytes", raw] or [kind |-> "workbook", sheet].         *)
(***************************************************************************)
LastIndexOf(s, c) ==
    Bind({i \in 1..Len(s) : s[i] = c}, LAMBDA at :
        IF at = {} THEN 0 ELSE CHOOSE i \in at : \A j \in at : j <= i)

\* os.path.splitext(p)[1]: from the last dot of the last path component on,
\* unless only dots come before it in that component
SplitExt(p) ==
    Bind(LastIndexOf(p, "/"), LAMBDA sepIndex :
    Bind(LastIndexOf(p, "."), LAMBDA dotIndex :
        IF dotIndex > sepIndex /\ \E k \in (sepIndex + 1)..(dotIndex - 1) : p[k] # "."
        THEN SubSeq(p, dotIndex, Len(p)) ELSE <<>>))

EndsWith(s, suffix) ==
    Len(s) >= Len(suffix) /\ SubSeq(s, Len(s) - Len(suffix) + 1, Len(s)) = suffix

BadZipFile == Raise("File is not a zip file", None_)
UnsupportedFileType ==
    Raise("Unsupported file type. Please upload CSV or Excel (.xlsx).", None_)

\* openpyxl.load_workbook(upload): the rows of the first sheet
LoadWorkbook(content) ==
    IF content.kind = "workbook" THEN [t |-> "sheet", rows |-> content.sheet] ELSE BadZipFile

SPREADSHEET_EXTENSIONS ==
    {<<".", "x", "l", "s", "x">>, <<".", "x", "l", "s", "m">>,
     <<".", "x", "l", "t", "x">>, <<".", "x", "l", "t", "m">>}
CSV_EXTENSION == <<".", "c", "s", "v">>

\* read_tabular_file(upload)
read_tabular_file(up) ==
    Bind(Lower(SplitExt(IF IsNone(up.name) THEN <<>> ELSE up.name.s)), LAMBDA ext :
        IF ext = CSV_EXTENSION THEN [reader |-> "read_csv", out |-> read_csv(up.content.raw)]
        ELSE IF ext \in SPREADSHEET_EXTENSIONS
        THEN Bind(LoadWorkbook(up.content), LAMBDA sheet :
                 [reader |-> "read_xlsx",
                  out |-> IF IsRaise(sheet) THEN sheet ELSE read_xlsx(sheet.rows)])
        ELSE [reader |-> "none", out |-> UnsupportedFileType])

\* _detect_format(request, filename), format the ?format= parameter
_detect_format(format, filename) ==
    Bind(Strip(Lower(IF IsNone(format) THEN <<>> ELSE format.s), Whitespace), LAMBDA fmt :
        IF fmt \in {<<"c", "s", "v">>, <<"x", "l", "s", "x">>} THEN fmt
        ELSE IF ~IsNone(filename) /\ filename.s # <<>>
        THEN (IF EndsWith(Lower(filename.s), <<".", "x", "l", "s", "x">>)
              THEN <<"x", "l", "s", "x">> ELSE <<"c", "s", "v">>)
        ELSE <<"c", "s", "v">>)

\* _read_table(uploaded_file, fmt)
_read_table(up, fmt) ==
    IF fmt = <<"x", "l", "s", "x">>
    THEN Bind(LoadWorkbook(up.content), LAMBDA sheet :
             [reader |-> "_read_xlsx",
              out |-> IF IsRaise(sheet) THEN sheet ELSE _read_xlsx(sheet.rows)])
    ELSE [reader |-> "_read_csv", out |-> _read_csv(up.content.raw)]

(***************************************************************************)
(* Reading an uploaded file: one file is chosen, then either the library   *)
(* call read_tabular_file(upload) or the handler data_import of the entity *)
(* "vendors" reads it.                                                     *)
(***************************************************************************)
MaxPayloadLen == 3
MaxSheetRows == 3

\* bytes of the payloads: "A", ",", line feed, the UTF-8 lead byte D0, the
\* continuation byte 90, FF, and 98 (undefined in cp1251)
PayloadBytes == {65, 44, 10, 208, 144, 255, 152}

RECURSIVE SeqsUpTo(_, _)
SeqsUpTo(S, n) ==
    IF n = 0 THEN {<<>>}
    ELSE Bind(SeqsUpTo(S, n - 1), LAMBDA shorter :
             shorter \cup {Append(s, x) : s \in {t \in shorter : Len(t) = n - 1}, x \in S})

\* "name,\nAcme,x", "\nname\nAcme", "name\nAcme,x", BOM "name\nAcme",
\* "name\n" and the cp1251 byte C0, FF 98 "\nA"
SamplePayloads ==
    { <<110, 97, 109, 101, 44, 10, 65, 99, 109, 101, 44, 120>>,
      <<10, 110, 97, 109, 101, 10, 65, 99, 109, 101>>,
      <<110, 97, 109, 101, 10, 65, 99, 109, 101, 44, 120>>,
      <<239, 187, 191, 110, 97, 109, 101, 10, 65, 99, 109, 101>>,
      <<110, 97, 109, 101, 10, 192>>,
      <<255, 152, 10, 65>> }

FileNames ==
    { None_, Str(<<"v">>), Str(<<".", "c", "s", "v">>), Str(<<"v", ".", "c", "s", "v">>), Str(<<"v", ".", "C", "S", "V">>), Str(<<"v", ".", "t", "x", "t">>), Str(<<"v", ".", "x", "l", "s", "x">>), Str(<<"V", ".", "X", "L", "S", "X">>),
      Str(<<"v", ".", "x", "l", "s", "m">>), Str(<<"v", ".", "x", "l", "t", "x">>), Str(<<"v", ".", "x", "l", "t", "m">>) }

FormatParameters == { None_, Str(<<"c", "s", "v">>), Str(<<" ", "X", "L", "S", "X", " ">>), Str(<<"p", "d", "f">>) }

SheetRowPool ==
    { <<None_, None_>>, <<Str(<<" ">>), None_>>, <<Str(<<"N", "a", "m", "e">>), Str(<<>>)>>, <<Str(<<"n", "a", "m", "e">>), Str(<<"n", "o", "t", "e", "s">>)>>,
      <<Str(<<"A", "c", "m", "e">>), Str(<<"n", "1">>)>>, <<None_, Str(<<"n", "2">>)>> }

\* a workbook is uploaded under a name both handlers read as a spreadsheet
WorkbookNames == { Str(<<"v", ".", "x", "l", "s", "x">>), Str(<<"V", ".", "X", "L", "S", "X">>) }

FileUploads ==
    { [name |-> n, format |-> f, content |-> [kind |-> "bytes", raw |-> raw]] :
          n \in FileNames, f \in FormatParameters, raw \in SamplePayloads }
    \cup { [name |-> Str(<<"v", ".", "c", "s", "v">>), format |-> None_, content |-> [kind |-> "bytes", raw |-> raw]] :
          raw \in SeqsUpTo(PayloadBytes, MaxPayloadLen) }
    \cup { [name |-> n, format |-> f, content |-> [kind |-> "workbook", sheet |-> sheet]] :
          n \in WorkbookNames, f \in {None_, Str(<<"x", "l", "s", "x">>)},
          sheet \in SeqsUpTo(SheetRowPool, MaxSheetRows) }

NoRead == [reader |-> "none", out |-> None_]

InitRead ==
    /\ ConcurrencyUnused
    /\ pc = "chosen"
    /\ spec = COST_CENTERS_SPEC /\ headers_in_file = <<>> /\ raw_rows = <<>> /\ result = NoResult
    /\ entity = "vendors"
    /\ request = NoRequest
    /\ response = NoResponse
    /\ vendors = <<>>
    /\ cost_centers = <<>> /\ services = <<>> /\ contracts = <<>> /\ invoices = <<>>
    /\ HelpersUnused
    /\ upload \in FileUploads
    /\ read_result = NoRead

\* the call read_tabular_file(upload)
ReadTabularFile ==
    /\ pc = "chosen"
    /\ read_result' = read_tabular_file(upload)
    /\ pc' = "read"
    /\ UNCHANGED <<validate_vars, import_vars, helper_vars, upload, conc_vars>>

\* the rows data_import hands to the importer
ImporterRows(table) ==
    IF IsRaise(table.out) THEN <<>>
    ELSE [i \in 1..Len(table.out.rows) |-> RowRecord(table.out.rows[i])]

\* the flash message data_import leaves; an exception of the reader is
\* caught like one of the importer
ReadResponse(table, out) ==
    IF IsRaise(table.out)
    THEN [level |-> "error", text |-> "import failed.",
          created |-> 0, updated |-> 0, detail |-> table.out]
    ELSE ImportResponse(table.out.rows, out)

\* data_import handles the POST of the chosen file: _detect_format,
\* _read_table, the importer, the message
DataImportFile ==
    /\ pc = "chosen"
    /\ \E table \in {_read_table(upload, _detect_format(upload.format, upload.name))} :
       \E rows \in {ImporterRows(table)} :
       \E out \in {IF rows = <<>> THEN Started(Database, None_)
                   ELSE Importer(entity, rows, ALICE, Database)} :
           /\ read_result' = table
           /\ request' = [rows |-> rows, user |-> ALICE]
           /\ response' = ReadResponse(table, out)
           /\ vendors' = out.db.vendors
           /\ cost_centers' = out.db.cost_centers
           /\ services' = out.db.services
           /\ contracts' = out.db.contracts
           /\ invoices' = out.db.invoices
    /\ pc' = "responded"
    /\ UNCHANGED <<validate_vars, entity, helper_vars, upload, conc_vars>>

NextRead == ReadTabularFile \/ DataImportFile

SpecRead == InitRead /\ [][NextRead]_vars

(***************************************************************************)
(* Properties of the table readers                                         *)
(***************************************************************************)
\* a reader has been chosen for the upload and has returned or raised
FileRead == pc \in {"read", "responded"}

\* the extension of the uploaded file's name, lowercased
FileExtension == Lower(SplitExt(IF IsNone(upload.name) THEN <<>> ELSE upload.name.s))

\* the upload was refused as an unsupported file type
Rejected ==
    /\ read_result.out = UnsupportedFileType
    /\ pc = "responded" => response.level = "error" /\ response.detail = UnsupportedFileType

\* C13 (as stated): an upload whose extension is not .csv, .xlsx, .xlsm,
\* .xltx or .xltm is rejected with the unsupported-file-type error and
\* changes no table; a .csv file is read by the CSV reader and a file with
\* one of the four spreadsheet extensions by the spreadsheet reader.
C13_AsStated ==
    FileRead =>
        /\ FileExtension = CSV_EXTENSION => read_result.reader \in {"read_csv", "_read_csv"}
        /\ FileExtension \in SPREADSHEET_EXTENSIONS =>
               read_result.reader \in {"read_xlsx", "_read_xlsx"}
        /\ FileExtension \notin SPREADSHEET_EXTENSIONS \cup {CSV_EXTENSION} =>
               /\ Rejected
               /\ vendors = <<>> /\ cost_centers = <<>> /\ services = <<>>
               /\ contracts = <<>> /\ invoices = <<>>

\* the text the decoders give in the order stated: the first of utf-8-sig,
\* utf-8, cp1251 that decodes the payload, else UTF-8 with replacement
DecodedInOrder(raw) ==
    LET order == <<"utf-8-sig", "utf-8", "cp1251">>
        ok == {i \in 1..3 : ~IsRaise(Decode(raw, order[i], "strict"))}
    IN  IF ok = {} THEN Decode(raw, "utf-8", "replace")
        ELSE Decode(raw, order[CHOOSE i \in ok : \A j \in ok : i <= j], "strict")

\* C15 (as stated): the CSV reader never fails on decoding; the text it
\* reads is that of the first decoder that succeeds in the order
\* UTF-8-with-BOM, UTF-8, cp1251, and UTF-8 with replacement characters
\* only when all three fail.
C15_AsStated ==
    FileRead /\ read_result.reader \in {"read_csv", "_read_csv"} =>
        /\ ~IsRaise(read_result.out)
        /\ read_result.out.text = DecodedInOrder(upload.content.raw)

\* the rows of the sheet that are not entirely blank, in sheet order
NonBlankRows(sheet) == SelectSeq(sheet, LAMBDA r : ~AllBlank(r))

\* the row mapping carries the cell of every column with a header
CarriesCells(row, header, cells) ==
    \A i \in 1..Len(header) :
        ~IsBlankCell(header[i]) =>
            \E j \in 1..Len(row) : row[j][2] \in {cells[i]} \cup
                                       (IF IsNone(cells[i]) THEN {EmptyStr} ELSE {})

\* C16 (as stated): the spreadsheet reader takes the first row that is not
\* entirely blank as the header row, even after blank rows, and gives one
\* row for each later row that is not entirely blank, in sheet order.
C16_AsStated ==
    FileRead /\ read_result.reader \in {"read_xlsx", "_read_xlsx"}
             /\ ~IsRaise(read_result.out) =>
        LET kept == NonBlankRows(upload.content.sheet)
            rows == read_result.out.rows
        IN  IF kept = <<>> THEN rows = <<>>
            ELSE /\ Len(rows) = Len(kept) - 1
                 /\ \A k \in 1..Len(rows) : CarriesCells(rows[k], kept[1], kept[k + 1])
                 /\ read_result.reader = "read_xlsx" =>
                        read_result.out.headers =
                            [i \in 1..Len(kept[1]) |-> _as_str(kept[1][i])]

\* C16 for the reader of the importers alone
C16_ImportReader ==
    read_result.reader = "_read_xlsx" => C16_AsStated

\* C12 (as stated), for the importers' readers: the cells of a column
\* whose header is None, empty or normalizes to the empty string are not
\* carried into the row mapping: no row has an item under the empty key.
C12_AsStated ==
    FileRead /\ read_result.reader \in {"_read_csv", "_read_xlsx"}
             /\ ~IsRaise(read_result.out) =>
        \A k \in 1..Len(read_result.out.rows) : <<>> \notin Keys(read_result.out.rows[k])

\* C12 for the spreadsheet reader of the importers alone
C12_SpreadsheetReader ==
    read_result.reader = "_read_xlsx" => C12_AsStated

(***************************************************************************)
(* portal/views.py : DATA_ENTITIES exporters, _csv_response, data_export   *)
(***************************************************************************)
DigitChar(n) == CHOOSE c \in Digits : DigitValue(c) = n

\* str(n) for an int n >= 0
RECURSIVE IntStr(_)
IntStr(n) == IF n < 10 THEN <<DigitChar(n)>> ELSE IntStr(n \div 10) \o <<DigitChar(n % 10)>>

\* n printed with at least width digits
ZeroPadded(n, width) ==
    Bind(IntStr(n), LAMBDA s : [i \in 1..(width - Len(s)) |-> "0"] \o s)

\* str(d) for a datetime.date
DateStr(d) ==
    Str(ZeroPadded(d.y, 4) \o <<"-">> \o ZeroPadded(d.m, 2) \o <<"-">> \o ZeroPadded(d.d, 2))

\* models.DecimalField(decimal_places=2)
DECIMAL_PLACES == 2

\* str(d) for the Decimal a DecimalField gives back: the value with two
\* decimals (the values stored have at most two)
DecimalStr(d) ==
    Bind(ZeroPadded(d.coeff * Pow10(DECIMAL_PLACES - d.scale), DECIMAL_PLACES + 1), LAMBDA digits :
        Str((IF d.sign < 0 THEN <<"-">> ELSE <<>>)
            \o SubSeq(digits, 1, Len(digits) - DECIMAL_PLACES) \o <<".">>
            \o SubSeq(digits, Len(digits) - DECIMAL_PLACES + 1, Len(digits))))

\* _as_str(v) for a value read from a record: str(v).strip()
ExportStr(v) ==
    CASE v.t = "None" -> EmptyStr
      [] v.t = "str" -> _as_str(v)
      [] v.t = "Decimal" -> DecimalStr(v)
      [] v.t = "date" -> DateStr(v)
      [] v.t = "int" -> Str(IntStr(v.n))

\* "v or ''"
OrEmpty(v) == IF Truthy(v) THEN v ELSE EmptyStr
\* "_as_str(v) if v is not None else ''" and "_as_str(v) if v else ''"
StrIfNotNone(v) == IF IsNone(v) THEN EmptyStr ELSE ExportStr(v)
StrIfTruthy(v) == IF Truthy(v) THEN ExportStr(v) ELSE EmptyStr

\* DATA_ENTITIES[key]["template_headers"]
template_headers(key) ==
    CASE key = "vendors" -> <<"name", "vendor_type", "tags", "primary_contact_name",
                              "primary_contact_email", "website", "notes">>
      [] key = "cost_centers" -> <<"code", "name", "business_unit", "region">>
      [] key = "services" -> <<"vendor_name", "name", "category", "service_code",
                               "default_currency", "default_billing_frequency",
                               "owner_display", "list_price", "allocation_split">>
      [] key = "contracts" -> <<"vendor_name", "contract_name", "contract_id", "contract_type",
                                "entity", "annual_value", "currency", "start_date", "end_date",
                                "renewal_date", "notice_period_days", "notice_date", "status">>
      [] key = "invoices" -> <<"vendor_name", "contract_name", "invoice_number", "invoice_date",
                               "currency", "total_amount", "tax_amount", "period_start",
                               "period_end", "notes">>

\* the list an exporter builds for record i of the entity's table
ExportRecord(key, db, i) ==
    CASE key = "vendors" ->
            Bind(db.vendors[i], LAMBDA v :
                <<v.name, OrEmpty(v.vendor_type), OrEmpty(v.tags),
                  OrEmpty(v.primary_contact_name), OrEmpty(v.primary_contact_email),
                  OrEmpty(v.website), OrEmpty(v.notes)>>)
      [] key = "cost_centers" ->
            Bind(db.cost_centers[i], LAMBDA c :
                <<c.code, c.name, OrEmpty(c.business_unit), OrEmpty(c.region)>>)
      [] key = "services" ->
            Bind(db.services[i], LAMBDA s :
                <<db.vendors[s.vendor.id].name, s.name, OrEmpty(s.category),
                  OrEmpty(s.service_code), OrEmpty(s.default_currency),
                  OrEmpty(s.default_billing_frequency), OrEmpty(s.owner_display),
                  StrIfNotNone(s.list_price), OrEmpty(s.allocation_split)>>)
      [] key = "contracts" ->
            Bind(db.contracts[i], LAMBDA c :
                <<db.vendors[c.vendor.id].name, c.contract_name, OrEmpty(c.contract_id),
                  OrEmpty(c.contract_type), OrEmpty(c.entity), StrIfNotNone(c.annual_value),
                  OrEmpty(c.currency), StrIfTruthy(c.start_date), StrIfTruthy(c.end_date),
                  StrIfTruthy(c.renewal_date), StrIfTruthy(c.notice_period_days),
                  StrIfTruthy(c.notice_date), OrEmpty(c.status)>>)
      [] key = "invoices" ->
            Bind(db.invoices[i], LAMBDA inv :
                <<db.vendors[inv.vendor.id].name,
                  IF Truthy(inv.contract) THEN db.contracts[inv.contract.id].contract_name
                  ELSE EmptyStr,
                  inv.invoice_number, ExportStr(inv.invoice_date), inv.currency,
                  ExportStr(inv.total_amount), StrIfNotNone(inv.tax_amount),
                  StrIfTruthy(inv.period_start), StrIfTruthy(inv.period_end),
                  OrEmpty(inv.notes)>>)

\* the records the exporter's query selects for the user
Exported(key, db, user) ==
    CASE key = "contracts" -> {i \in DOMAIN db.contracts : db.contracts[i].owner = user}
      [] key = "invoices" -> {i \in DOMAIN db.invoices : db.invoices[i].owner = user}
      [] OTHER -> DOMAIN TableOf(key, db)

\* the order_by of the exporter's query: does record i come before record j
ExportBefore(key, db, i, j) ==
    CASE key = "vendors" -> VendorBefore(db.vendors, i, j)
      [] key = "cost_centers" ->
            \/ TextBefore(db.cost_centers[i].code.s, db.cost_centers[j].code.s)
            \/ db.cost_centers[i].code = db.cost_centers[j].code /\ i < j
      [] key = "services" ->
            \/ TextBefore(db.vendors[db.services[i].vendor.id].name.s,
                          db.vendors[db.services[j].vendor.id].name.s)
            \/ /\ db.vendors[db.services[i].vendor.id].name
                    = db.vendors[db.services[j].vendor.id].name
               /\ ServiceBefore(db.services, i, j)
      [] key = "contracts" -> ContractBefore(i, j)
      [] key = "invoices" -> InvoiceBefore(db.invoices, i, j)

\* DATA_ENTITIES[key]["exporter"](user): the selected records in query order
Exporter(key, db, user) ==
    Bind(Exported(key, db, user), LAMBDA sel :
        [k \in 1..Cardinality(sel) |->
            ExportRecord(key, db,
                CHOOSE i \in sel :
                    Cardinality({j \in sel : ExportBefore(key, db, j, i)}) = k - 1)])

\* csv.writer, QUOTE_MINIMAL: a field holding the delimiter, a quote or a line
\* end is written in quotes, its quotes doubled
RECURSIVE DoubleQuotes(_)
DoubleQuotes(s) ==
    IF s = <<>> THEN <<>>
    ELSE (IF Head(s) = "\"" THEN <<"\"", "\"">> ELSE <<Head(s)>>) \o DoubleQuotes(Tail(s))

CsvField(s) ==
    IF \E i \in 1..Len(s) : s[i] \in {",", "\"", "\r", "\n"}
    THEN <<"\"">> \o DoubleQuotes(s) \o <<"\"">> ELSE s

\* writer.writerow(fields), fields a list of two or more texts
RECURSIVE JoinFields(_)
JoinFields(fields) ==
    IF Len(fields) = 1 THEN CsvField(Head(fields))
    ELSE CsvField(Head(fields)) \o <<",">> \o JoinFields(Tail(fields))

writerow(fields) == JoinFields(fields) \o <<"\r", "\n">>

RECURSIVE writerows(_)
writerows(rows) == IF rows = <<>> THEN <<>> ELSE writerow(Head(rows)) \o writerows(Tail(rows))

\* the spelling of a column name
Spelling(name) == (CHOOSE p \in COLUMNS : p[2] = name)[1]

\* text.encode("utf-8") for a text of ASCII characters
Utf8Encode(text) == [i \in 1..Len(text) |-> CodePoint(text[i])]

EXPORT_FILENAME == Str(<<"d", "a", "t", "a", "n", "a", "u", "t", ".", "c", "s", "v">>)

\* _csv_response(filename, headers, rows): the file the browser saves
_csv_response(filename, headers, rows) ==
    [name |-> filename, format |-> None_,
     content |-> [kind |-> "bytes",
                  raw |-> Utf8Encode(writerow(headers)
                                     \o writerows([k \in 1..Len(rows) |->
                                                     [c \in 1..Len(rows[k]) |-> rows[k][c].s]]))]]

\* data_export(request, entity) without ?format=: the CSV file
data_export(key, db, user) ==
    _csv_response(EXPORT_FILENAME,
                  [c \in 1..Len(template_headers(key)) |-> Spelling(template_headers(key)[c])],
                  Exporter(key, db, user))

\* a user downloads /data/export/<entity>/ and posts the file saved back to
\* /data/import/<entity>/, where data_import reads it with _read_table
ExportAndPost ==
    /\ pc = "idle"
    /\ \E user \in Uploaders(entity) :
       \E file \in {data_export(entity, Database, user)} :
           /\ upload' = file
           /\ request' = [rows |-> ImporterRows(_read_table(file, _detect_format(file.format, file.name))),
                          user |-> user]
    /\ pc' = "uploaded"
    /\ UNCHANGED <<validate_vars, entity, response, tables, helper_vars, read_result, conc_vars>>

NextImport == Upload \/ ExportAndPost \/ DataImport \/ Redirect

SpecImport == InitImport /\ [][NextImport]_vars

(***************************************************************************)
(* Export and re-import                                                    *)
(***************************************************************************)
\* the file being imported is the export of the entity's records as they are
ReimportsExport ==
    ImportStep /\ upload # NoUpload /\ upload = data_export(entity, Database, request.user)

\* every template field of every record of the entity has the value it had
TemplateFieldsKept ==
    /\ DOMAIN TableOf(entity, Database') = DOMAIN TableOf(entity, Database)
    /\ \A i \in DOMAIN TableOf(entity, Database) :
           ExportRecord(entity, Database', i) = ExportRecord(entity, Database, i)

\* C14 (as stated): exporting the records of an entity and importing the
\* produced file again creates no record and leaves every field listed in
\* the entity's template headers as it was, on every record.
C14_AsStated ==
    [][ ReimportsExport => response'.created = 0 /\ TemplateFieldsKept ]_vars

\* C14 for the entities other than contracts
C14_OtherEntities ==
    [][ ReimportsExport /\ entity # "contracts"
            => response'.created = 0 /\ TemplateFieldsKept ]_vars

(***************************************************************************)
(* Rows of one file against each other                                     *)
(***************************************************************************)
\* the key cells of row r are filled: the importer does not pass over it
KeyFilled(key, r) ==
    CASE key = "vendors" -> Truthy(Cell(r, "name"))
      [] key = "cost_centers" -> Truthy(Cell(r, "code")) /\ Truthy(Cell(r, "name"))
      [] key = "services" -> Truthy(Cell(r, "vendor_name")) /\ Truthy(Cell(r, "name"))
      [] key = "contracts" -> Truthy(Cell(r, "vendor_name")) /\ Truthy(Cell(r, "contract_name"))
      [] key = "invoices" -> Truthy(Cell(r, "vendor_name")) /\ Truthy(Cell(r, "invoice_number"))

\* two rows of a vendors or services file carry the same natural key
SameNaturalKey(key, r1, r2) ==
    CASE key = "vendors" -> IExact(Cell(r1, "name"), Cell(r2, "name"))
      [] key = "services" ->
            /\ VendorByName(vendors, Cell(r1, "vendor_name"))
                   = VendorByName(vendors, Cell(r2, "vendor_name"))
            /\ IExact(Cell(r1, "name"), Cell(r2, "name"))

\* row k of the request finds its record: one that was there before the
\* import, or the one an earlier row of the file created
FindsRecord(k) ==
    \/ \E i \in DOMAIN TableOf(entity, Database) :
           MatchesByNaturalKey(entity, Database, request.rows[k], request.user, i)
    \/ \E j \in 1..(k - 1) :
           /\ KeyFilled(entity, request.rows[j])
           /\ SameNaturalKey(entity, request.rows[j], request.rows[k])

\* C21: within one vendors or services file each row is reconciled against
\* the state the earlier rows left: a row whose natural key matches no
\* record, and no earlier row of the file, creates one record (created+1);
\* a row whose key matches a record, or an earlier row, updates (updated+1);
\* the table grows by the number of rows that created.
C21_RowsReconciled ==
    [][ (ImportStep /\ entity \in {"vendors", "services"} /\ response'.level = "success")
        => LET filled == {k \in 1..Len(request.rows) : KeyFilled(entity, request.rows[k])}
           IN  /\ response'.created = Cardinality({k \in filled : ~FindsRecord(k)})
               /\ response'.updated = Cardinality({k \in filled : FindsRecord(k)})
               /\ Len(TableOf(entity, Database')) =
                      Len(TableOf(entity, Database)) + response'.created ]_vars

\* a vendors file with two rows of the same name, "Acme" and " ACME ", was
\* imported into an empty table: one vendor, created 1, updated 1
C21_Witness ==
    /\ pc = "responded" /\ entity = "vendors" /\ response.level = "success"
    /\ Len(request.rows) = 2
    /\ KeyFilled("vendors", request.rows[1])
    /\ request.rows[1].name # request.rows[2].name
    /\ IExact(Cell(request.rows[1], "name"), Cell(request.rows[2], "name"))
    /\ response.created = 1 /\ response.updated = 1
    /\ Len(vendors) = 1


(***************************************************************************)
(* C23: the notice date and the end date of the stored contracts           *)
(***************************************************************************)
\* every contract that has a notice_date has an end_date on or after it
NoticeWithinEnd(tbl) ==
    \A i \in DOMAIN tbl :
        Truthy(tbl[i].notice_date)
            => /\ Truthy(tbl[i].end_date)
               /\ ~DateAfter(tbl[i].notice_date, tbl[i].end_date)

\* C23: a successful contract import that starts from contracts whose notice
\* dates all lie on or before a present end date leaves contracts of which the
\* same is true, whatever date cells its rows fill or leave blank.
C23_NoticeWithinEndKept ==
    [][ (ImportStep /\ entity = "contracts" /\ response'.level = "success"
            /\ NoticeWithinEnd(contracts))
        => NoticeWithinEnd(contracts') ]_vars

\* a successful contracts file with a row that moved only the end date of a
\* stored contract that has a notice date, and one with a row that moved only
\* the notice date of a stored contract that has an end date
C23_Witness ==
    /\ pc = "responded" /\ entity = "contracts" /\ response.level = "success"
    /\ Len(request.rows) = 2
    /\ response.updated = 2
    /\ \E i \in DOMAIN contracts :
           /\ contracts[i].end_date = Date(2026, 6, 30)
           /\ contracts[i].notice_date = Date(2026, 1, 15)
    /\ ~Truthy(Cell(request.rows[1], "notice_date")) /\ Truthy(Cell(request.rows[1], "end_date"))
    /\ ~Truthy(Cell(request.rows[2], "end_date")) /\ Truthy(Cell(request.rows[2], "notice_date"))


(***************************************************************************)
(* C24: the rows an importer skips and the rows it counts                  *)
(***************************************************************************)
\* the cells of the natural key of an entity are filled in row r: vendor by
\* name, cost center by code, service by vendor and name, contract by vendor
\* and contract name, invoice by vendor and invoice number
NaturalKeyFilled(key, r) ==
    CASE key = "vendors" -> Truthy(Cell(r, "name"))
      [] key = "cost_centers" -> Truthy(Cell(r, "code"))
      [] key = "services" -> Truthy(Cell(r, "vendor_name")) /\ Truthy(Cell(r, "name"))
      [] key = "contracts" -> Truthy(Cell(r, "vendor_name")) /\ Truthy(Cell(r, "contract_name"))
      [] key = "invoices" -> Truthy(Cell(r, "vendor_name")) /\ Truthy(Cell(r, "invoice_number"))

\* the importer's loop over the rows of the request that pass Keep, from the
\* tables as they are
LoopOverKept(Keep(_)) ==
    ForEachRow(entity, SelectSeq(request.rows, Keep), request.user, Started(Database, None_))

\* C24 as stated: a successful import counts exactly the rows whose
\* natural-key cells are all filled, and leaves the tables that the same file
\* without its other rows leaves.
C24_AsStated ==
    [][ (ImportStep /\ response'.level = "success")
        => /\ response'.created + response'.updated
                = Cardinality({k \in 1..Len(request.rows) :
                                  NaturalKeyFilled(entity, request.rows[k])})
           /\ tables' = <<LoopOverKept(LAMBDA r : NaturalKeyFilled(entity, r)).db.vendors,
                          LoopOverKept(LAMBDA r : NaturalKeyFilled(entity, r)).db.cost_centers,
                          LoopOverKept(LAMBDA r : NaturalKeyFilled(entity, r)).db.services,
                          LoopOverKept(LAMBDA r : NaturalKeyFilled(entity, r)).db.contracts,
                          LoopOverKept(LAMBDA r : NaturalKeyFilled(entity, r)).db.invoices>> ]_vars

\* C24: a successful import counts exactly the rows whose natural-key cells
\* and, for a cost center, whose name cell are all filled; the other rows are
\* skipped without an error, are counted in neither total and change no
\* record: the tables are those the file without them leaves.
C24_SkipsBlankRequired ==
    [][ (ImportStep /\ response'.level = "success")
        => /\ response'.created + response'.updated
                = Cardinality({k \in 1..Len(request.rows) : KeyFilled(entity, request.rows[k])})
           /\ tables' = <<LoopOverKept(LAMBDA r : KeyFilled(entity, r)).db.vendors,
                          LoopOverKept(LAMBDA r : KeyFilled(entity, r)).db.cost_centers,
                          LoopOverKept(LAMBDA r : KeyFilled(entity, r)).db.services,
                          LoopOverKept(LAMBDA r : KeyFilled(entity, r)).db.contracts,
                          LoopOverKept(LAMBDA r : KeyFilled(entity, r)).db.invoices>> ]_vars

\* a successful cost-centers file of two rows of which one, with a code and a
\* blank name, was skipped and the other was written
C24_Witness ==
    /\ pc = "responded" /\ entity = "cost_centers" /\ response.level = "success"
    /\ Len(request.rows) = 2
    /\ \E k \in 1..2 : /\ Truthy(Cell(request.rows[k], "code"))
                       /\ ~Truthy(Cell(request.rows[k], "name"))
    /\ response.created + response.updated = 1


(***************************************************************************)
(* C25: the same file imported a second time                               *)
(***************************************************************************)
\* the importer run once more on the file of the request by the same user,
\* over the tables db
Reimport(db) == Importer(entity, request.rows, request.user, db)

\* the tables after the step
DatabaseAfter == [vendors |-> vendors', cost_centers |-> cost_centers', services |-> services',
                  contracts |-> contracts', invoices |-> invoices']

\* C25 as stated: after a successful import, the same file imported again
\* creates no record, updates as many as the first run wrote, and leaves the
\* number of records of the entity as it was.
C25_AsStated ==
    [][ (ImportStep /\ response'.level = "success")
        => /\ ~IsRaise(Reimport(DatabaseAfter).error)
           /\ Reimport(DatabaseAfter).created = 0
           /\ Reimport(DatabaseAfter).updated = response'.created + response'.updated
           /\ Len(TableOf(entity, Reimport(DatabaseAfter).db))
                = Len(TableOf(entity, DatabaseAfter)) ]_vars


\* the second run fails only on a date check of the contract importer
C25_SecondRunRaises ==
    [][ (ImportStep /\ response'.level = "success" /\ IsRaise(Reimport(DatabaseAfter).error))
        => /\ entity = "contracts"
           /\ Reimport(DatabaseAfter).error.text
                \in {"notice_date is set but end_date is missing",
                     "notice_date must be on/before end_date"}
           /\ Reimport(DatabaseAfter).db = DatabaseAfter ]_vars

\* a second run that is not refused creates no record, updates as many
\* records as the first run wrote, and leaves the number of records of the
\* entity as it was
C25_ReimportCreatesNothing ==
    [][ (ImportStep /\ response'.level = "success" /\ ~IsRaise(Reimport(DatabaseAfter).error))
        => /\ Reimport(DatabaseAfter).created = 0
           /\ Reimport(DatabaseAfter).updated = response'.created + response'.updated
           /\ Len(TableOf(entity, Reimport(DatabaseAfter).db))
                = Len(TableOf(entity, DatabaseAfter)) ]_vars


(***************************************************************************)
(* C30: several columns of one row mapped to the same field                *)
(***************************************************************************)
\* the columns of raw row i mapped to field whose converter did not raise
ConvertedColumns(i, field) ==
    {j \in ColumnsOf(FieldAt(spec, raw_rows[i]), field) :
        ~IsRaise(Convert(spec, field, raw_rows[i][j][2]))}

LastOf(S) == CHOOSE j \in S : \A k \in S : k <= j

\* C30: when several columns of a row are aliases of one field, the clean row
\* holds under that field the converted value of the last of those columns
\* whose converter did not raise (and nothing when all raised), so a later
\* alias column's blank value replaces an earlier alias column's value.
C30_LastAliasWins ==
    pc = "done" =>
        \A i \in 1..Len(raw_rows) : \A field \in Range(spec.header_map) :
            Cardinality(ColumnsOf(FieldAt(spec, raw_rows[i]), field)) >= 2
                => IF ConvertedColumns(i, field) = {}
                   THEN field \notin DOMAIN result.clean_rows[i]
                   ELSE /\ field \in DOMAIN result.clean_rows[i]
                        /\ result.clean_rows[i][field]
                             = Convert(spec, field,
                                       raw_rows[i][LastOf(ConvertedColumns(i, field))][2])

\* a cost-centers row whose "Cost-Center" column holds " ab" and whose later
\* "CODE " column is blank: the clean row's code is the blank cell's value
C30_Witness ==
    /\ pc = "done" /\ spec = COST_CENTERS_SPEC
    /\ Len(raw_rows) >= 1 /\ Len(raw_rows[1]) = 2
    /\ ColumnsOf(FieldAt(spec, raw_rows[1]), "code") = {1, 2}
    /\ raw_rows[1][1][2] = Str(<<" ", "a", "b">>)
    /\ IsBlankCell(raw_rows[1][2][2])
    /\ IsBlankValue(result.clean_rows[1]["code"])

\* an amounts row whose later alias column failed to convert and whose
\* earlier alias column's value is kept
C30_WitnessRaised ==
    /\ pc = "done" /\ spec = AMOUNTS_SPEC
    /\ Len(raw_rows) >= 1
    /\ ColumnsOf(FieldAt(spec, raw_rows[1]), "amount") = {1, 2}
    /\ ConvertedColumns(1, "amount") = {1}
    /\ result.clean_rows[1]["amount"] = Convert(spec, "amount", raw_rows[1][1][2])
    /\ ~IsNone(result.clean_rows[1]["amount"])


(***************************************************************************)
(* Concurrent requests.  settings.py configures one SQLite database file:  *)
(* every request runs on its own connection, a statement outside           *)
(* transaction.atomic is committed on its own, and inside an atomic block  *)
(* (BEGIN ... COMMIT) the connection takes the file's SHARED lock with its *)
(* first read, the RESERVED lock with its first write, and needs every     *)
(* other connection's lock released to commit.  A connection that cannot   *)
(* get its lock waits, and gives up with OperationalError("database is     *)
(* locked") when the wait cannot end or lasts longer than the timeout.     *)
(***************************************************************************)
Clients == {"c1", "c2"}

\* a connection outside a transaction
Closed == [lock |-> "none", view |-> None_, needs_rollback |-> FALSE]

\* connection c may take the RESERVED lock: no other connection holds it
CanReserve(c) == \A d \in Clients \ {c} : conn[d].lock # "reserved"

\* connection c may commit: no other connection holds a lock
CanCommit(c) == \A d \in Clients \ {c} : conn[d].lock = "none"

\* (mutant) the read is made outside the atomic block: no lock is kept
ReadingOutsideTransaction(c) == conn[c]

\* connection c with the SHARED lock of its first read
Reading(c) == IF conn[c].lock = "none" THEN [conn[c] EXCEPT !.lock = "shared"] ELSE conn[c]

\* connection c with the RESERVED lock and the tables it has written
Writing(c, tbls) == [conn[c] EXCEPT !.lock = "reserved", !.view = tbls]

DatabaseIsLocked == Raise("database is locked", None_)

\* a client that runs no handler; response is what its last request got
Idle(resp) == [step |-> "idle", response |-> resp]

(***************************************************************************)
(* Two vendor imports posted at the same time: _import_vendors as the      *)
(* statements it sends, one step each                                      *)
(***************************************************************************)
MaxPosts == 2       \* imports posted in one run
MaxRaceRows == 2    \* data rows in a file of the race

RaceRows ==
    { [name |-> Str(<<"A", "c", "m", "e">>), vendor_type |-> Str(<<"o", "t", "h", "e", "r">>), notes |-> Str(<<>>)],
      [name |-> Str(<<" ", "A", "C", "M", "E", " ">>), vendor_type |-> Str(<<>>), notes |-> Str(<<"n", "1">>)],
      [name |-> Str(<<" ">>), vendor_type |-> Str(<<"o", "t", "h", "e", "r">>), notes |-> Str(<<"n", "1">>)] }

RaceFiles == UNION {[1..n -> RaceRows] : n \in 1..MaxRaceRows}

\* the vendors table as connection c sees it: its own writes, else the file
VendorsSeen(c) == IF conn[c].lock = "reserved" THEN conn[c].view ELSE vendors

InitRace ==
    /\ pc = "concurrent"
    /\ spec = COST_CENTERS_SPEC /\ headers_in_file = <<>> /\ raw_rows = <<>> /\ result = NoResult
    /\ entity = "vendors" /\ request = NoRequest /\ response = NoResponse
    /\ vendors = <<>> /\ cost_centers = <<>> /\ services = <<>>
    /\ contracts = <<>> /\ invoices = <<>>
    /\ HelpersUnused
    /\ ReadersUnused
    /\ conn = [c \in Clients |-> Closed]
    /\ task = [c \in Clients |-> Idle(NoResponse)]
    /\ prov = <<>> /\ session = [c \in Clients |-> [user |-> ALICE]]
    /\ now = 0

race_unchanged == <<pc, validate_vars, entity, request, response, cost_centers, services,
                    contracts, invoices, helper_vars, reader_vars, prov, session>>

\* data_import reads the file and calls _import_vendors: the atomic block is
\* entered (BEGIN takes no lock) and _require_columns looks at the first row
PostImport(c) ==
    /\ task[c].step = "idle" /\ now < MaxPosts
    /\ \E rows \in RaceFiles :
           task' = [task EXCEPT ![c] =
                       IF IsRaise(_require_columns(rows, <<"name">>))
                       THEN Idle(ImportResponse(rows, Started(EmptyTables,
                                                _require_columns(rows, <<"name">>))))
                       ELSE [step |-> "row", rows |-> rows, k |-> 1, obj |-> 0,
                             created |-> 0, updated |-> 0]]
    /\ now' = now + 1
    /\ UNCHANGED <<race_unchanged, vendors, conn>>

\* "for r in rows": a row without a name is passed over; for a row with one,
\* Vendor.objects.filter(name__iexact=name).first() is read
LookupVendor(c) ==
    /\ task[c].step = "row" /\ task[c].k <= Len(task[c].rows)
    /\ \E name \in {_as_str(RowGet(task[c].rows[task[c].k], "name"))} :
           IF ~Truthy(name)
           THEN /\ task' = [task EXCEPT ![c].k = @ + 1]
                /\ UNCHANGED conn
           ELSE /\ task' = [task EXCEPT ![c].step = "write",
                                        ![c].obj = VendorByName(VendorsSeen(c), name)]
                /\ conn' = [conn EXCEPT ![c] = Reading(c)]
    /\ UNCHANGED <<race_unchanged, vendors, now>>

\* the vendors table after the branch taken for the row: obj.save() of the
\* vendor found, or Vendor.objects.create
VendorWritten(tbl, obj, r) ==
    Bind(_as_str(RowGet(r, "name")), LAMBDA name :
        IF obj # 0
        THEN [tbl EXCEPT ![obj] = [SetAttrs(tbl[obj], VendorDefaults(r), NotEmptyStr)
                                      EXCEPT !.name = name]]
        ELSE Create(tbl, Vendor, [f \in {"name"} |-> name] @@ VendorDefaults(r)))

\* the UPDATE or INSERT of the row, once the RESERVED lock is had
WriteVendor(c) ==
    /\ task[c].step = "write" /\ CanReserve(c)
    /\ conn' = [conn EXCEPT ![c] =
                   Writing(c, VendorWritten(VendorsSeen(c), task[c].obj,
                                            task[c].rows[task[c].k]))]
    /\ task' = [task EXCEPT ![c].step = "row", ![c].k = @ + 1,
                            ![c].created = IF task[c].obj = 0 THEN @ + 1 ELSE @,
                            ![c].updated = IF task[c].obj # 0 THEN @ + 1 ELSE @]
    /\ UNCHANGED <<race_unchanged, vendors, now>>

\* the RESERVED lock is another connection's: OperationalError leaves the
\* atomic block, which rolls back, and data_import reports the failure
WriteVendorLocked(c) ==
    /\ task[c].step = "write" /\ ~CanReserve(c)
    /\ conn' = [conn EXCEPT ![c] = Closed]
    /\ task' = [task EXCEPT ![c] =
                   Idle(ImportResponse(task[c].rows, Started(EmptyTables, DatabaseIsLocked)))]
    /\ UNCHANGED <<race_unchanged, vendors, now>>

\* the loop is over: the atomic block commits and data_import reports the counts
CommitImport(c) ==
    /\ task[c].step = "row" /\ task[c].k > Len(task[c].rows)
    /\ conn[c].lock = "reserved" => CanCommit(c)
    /\ vendors' = VendorsSeen(c)
    /\ conn' = [conn EXCEPT ![c] = Closed]
    /\ task' = [task EXCEPT ![c] =
                   Idle(ImportResponse(task[c].rows,
                            [db |-> EmptyTables, created |-> task[c].created,
                             updated |-> task[c].updated, error |-> None_]))]
    /\ UNCHANGED <<race_unchanged, now>>

\* another connection keeps its lock for longer than the timeout: the commit
\* fails, the writes are rolled back, and data_import reports the failure
CommitImportLocked(c) ==
    /\ task[c].step = "row" /\ task[c].k > Len(task[c].rows)
    /\ conn[c].lock = "reserved" /\ ~CanCommit(c)
    /\ conn' = [conn EXCEPT ![c] = Closed]
    /\ task' = [task EXCEPT ![c] =
                   Idle(ImportResponse(task[c].rows, Started(EmptyTables, DatabaseIsLocked)))]
    /\ UNCHANGED <<race_unchanged, vendors, now>>

NextRace ==
    \E c \in Clients :
        \/ PostImport(c)
        \/ LookupVendor(c)
        \/ WriteVendor(c)
        \/ WriteVendorLocked(c)
        \/ CommitImport(c)
        \/ CommitImportLocked(c)

SpecRace == InitRace /\ [][NextRace]_vars


(***************************************************************************)
(* C22: two imports racing on one new vendor name                          *)
(***************************************************************************)
\* the name the row in hand of client c carries
NameInHand(c) == _as_str(RowGet(task[c].rows[task[c].k], "name"))

\* client c has looked its row up, found no vendor, and is about to create one
TakesCreateBranch(c) == task[c].step = "write" /\ task[c].obj = 0

\* two records of the table carry names that are equal case-insensitively
SameNameTwice(tbl) ==
    \E i, j \in DOMAIN tbl : i # j /\ IExact(tbl[i].name, tbl[j].name)

\* client d has created, and not yet committed, a vendor of the name that
\* client c is about to create
RacingCreate(c, d) ==
    /\ TakesCreateBranch(c)
    /\ conn[d].lock = "reserved"
    /\ VendorByName(conn[d].view, NameInHand(c)) # 0
    /\ VendorByName(vendors, NameInHand(c)) = 0

\* C22 as stated: when two concurrent imports have both taken the create
\* branch for one new name, both creates take effect, so that two vendors
\* whose names are equal case-insensitively come to exist.
C22_AsStated ==
    [][ \A c \in Clients : \A d \in Clients \ {c} :
            (RacingCreate(c, d) /\ task'[c] # task[c])
                => /\ task'[c].step = "row"
                   /\ task'[c].created = task[c].created + 1 ]_vars

\* C22: the importer does nothing against the race, both imports can take
\* the create branch for one new name, and it is the database that refuses
\* the second writer: no two vendors whose names are equal
\* case-insensitively come to exist, neither in the table nor in what a
\* connection has written, and of two imports that race on a name the one
\* that finds the write lock taken ends with "database is locked".
C22_RaceRefused ==
    [][ /\ ~SameNameTwice(vendors')
        /\ \A c \in Clients :
               /\ conn'[c].lock = "reserved" => ~SameNameTwice(conn'[c].view)
               /\ \A d \in Clients \ {c} :
                      (RacingCreate(c, d) /\ task'[c] # task[c])
                          => /\ task'[c].step = "idle"
                             /\ task'[c].response.level = "error"
                             /\ task'[c].response.detail = DatabaseIsLocked ]_vars

\* both imports have looked up the same new name and found nothing
C22_Witness ==
    /\ vendors = <<>>
    /\ \A c \in Clients : TakesCreateBranch(c)
    /\ IExact(NameInHand("c1"), NameInHand("c2"))
    /\ NameInHand("c1") # NameInHand("c2")


(***************************************************************************)
(* portal/views.py : the Provisioning Hub.  Users are named by their       *)
(* primary key; prov holds the rows of auth_user with the profile's        *)
(* manager, of portal_provisioningrequest and of portal_serviceassignment. *)
(***************************************************************************)
PROV_ADMIN_GROUPS == {"Provisioning Hub Admins", "ProvisioningHubAdmins"}

STATUS_PENDING == "pending"
STATUS_APPROVED == "approved"
STATUS_REJECTED == "rejected"

\* None where the primary key of a user is expected
NoUser == "None"

\* a value of timezone.now(): the number of the request it was taken in
DateTime(n) == [t |-> "datetime", at |-> n]

\* a row of auth_user, with UserProfile.manager (NoUser for no manager)
Account(is_staff, groups, manager) ==
    [is_superuser |-> FALSE, is_staff |-> is_staff, groups |-> groups, manager |-> manager]

\* eve reports to mia; ann is staff, bob is in the provisioning admins group
Directory ==
    [u \in {"eve", "mia", "ann", "bob"} |->
        CASE u = "eve" -> Account(FALSE, {}, "mia")
          [] u = "mia" -> Account(FALSE, {}, NoUser)
          [] u = "ann" -> Account(TRUE, {}, NoUser)
          [] u = "bob" -> Account(FALSE, {"ProvisioningHubAdmins"}, NoUser)]

\* the rows of portal_service: id, is_active, and the vendor's is_active
Catalog ==
    [s \in {1, 2, 3} |-> [is_active |-> s # 3, vendor_is_active |-> TRUE]]

\* _is_prov_admin(user), user a row of auth_user
_is_prov_admin(users, user) ==
    \/ users[user].is_superuser
    \/ users[user].is_staff
    \/ users[user].groups \cap PROV_ADMIN_GROUPS # {}

\* (mutant) the manager rule is dropped from the check: anybody may act
_can_act_forAnybody(users, manager_user, target_user) == TRUE

\* _can_act_for(manager_user, target_user); login_required has made
\* manager_user an authenticated user
_can_act_for(users, manager_user, target_user) ==
    \/ manager_user = target_user
    \/ _is_prov_admin(users, manager_user)
    \/ users[target_user].manager = manager_user

\* (mutant) a stale acting id is used as it is
_get_acting_userUnchecked(users, sess) ==
    IF sess.acting = NoUser \/ sess.acting \notin DOMAIN users
    THEN [user |-> sess.user, session |-> [sess EXCEPT !.acting = NoUser]]
    ELSE [user |-> sess.acting, session |-> sess]

\* _get_acting_user(request): the effective user and the session as left
_get_acting_user(users, sess) ==
    IF sess.acting = NoUser THEN [user |-> sess.user, session |-> sess]
    ELSE IF sess.acting \notin DOMAIN users
    THEN [user |-> sess.user, session |-> [sess EXCEPT !.acting = NoUser]]
    ELSE IF ~_can_act_for(users, sess.user, sess.acting)
    THEN [user |-> sess.user, session |-> [sess EXCEPT !.acting = NoUser]]
    ELSE [user |-> sess.acting, session |-> sess]

\* a row of portal_provisioningrequest as objects.create makes it
ProvisioningRequest(requester, service, reason) ==
    [requester |-> requester, service |-> service, reason |-> reason,
     status |-> STATUS_PENDING, decided_at |-> None_, decided_by |-> NoUser,
     decision_note |-> ""]

\* a row of portal_serviceassignment
ServiceAssignment(user, service, assigned_by) ==
    [user |-> user, service |-> service, assigned_by |-> assigned_by]

\* the rows of a table that are still there (a deleted row leaves None)
Live(tbl) == {i \in DOMAIN tbl : tbl[i] # None_}

\* ProvisioningRequest.objects.filter(requester=, service=, status=pending)
PendingOf(db, requester, service) ==
    {i \in Live(db.requests) : /\ db.requests[i].requester = requester
                                /\ db.requests[i].service = service
                                /\ db.requests[i].status = STATUS_PENDING}

\* ServiceAssignment.objects.filter(user=, service=)
AssignmentsOf(db, user, service) ==
    {i \in Live(db.assignments) : /\ db.assignments[i].user = user
                                   /\ db.assignments[i].service = service}

IntegrityError == Raise("UNIQUE constraint failed", None_)

\* (mutant) the table has no uniq_pending_provisioning_request_per_service
InsertRequestUnconstrained(db, row) == [db EXCEPT !.requests = Append(@, row)]

\* INSERT INTO portal_provisioningrequest under the constraint
\* uniq_pending_provisioning_request_per_service: the tables, or IntegrityError
InsertRequest(db, row) ==
    IF row.status = STATUS_PENDING /\ PendingOf(db, row.requester, row.service) # {}
    THEN IntegrityError
    ELSE [db EXCEPT !.requests = Append(@, row)]

\* INSERT INTO portal_serviceassignment under unique_together (user, service)
InsertAssignment(db, row) ==
    IF AssignmentsOf(db, row.user, row.service) # {}
    THEN IntegrityError
    ELSE [db EXCEPT !.assignments = Append(@, row)]

\* (mutant) get_or_create replaced by create after a lookup by user alone
get_or_createAssignmentByUser(db, user, service, assigned_by) ==
    IF \E i \in Live(db.assignments) : db.assignments[i].user = user THEN db
    ELSE InsertAssignment(db, ServiceAssignment(user, service, assigned_by))

\* ServiceAssignment.objects.get_or_create(user=, service=, defaults=) run
\* with no other writer in between: the tables afterwards
get_or_createAssignment(db, user, service, assigned_by) ==
    IF AssignmentsOf(db, user, service) # {} THEN db
    ELSE InsertAssignment(db, ServiceAssignment(user, service, assigned_by))

\* pr.save(update_fields=["status", "decided_at", "decided_by", ...])
SaveDecision(db, pk, status, at, by, note) ==
    [db EXCEPT !.requests[pk].status = status,
               !.requests[pk].decided_at = DateTime(at),
               !.requests[pk].decided_by = by,
               !.requests[pk].decision_note = IF note # "" THEN note ELSE @]


(***************************************************************************)
(* The Provisioning Hub under concurrent requests: each endpoint as the    *)
(* statements it sends to the database, one step each                      *)
(***************************************************************************)
MaxCalls == 2       \* requests posted to the Provisioning Hub in one run

\* the tables as connection c sees them: its own writes, else the file
ProvSeen(c) == IF conn[c].lock = "reserved" THEN conn[c].view ELSE prov

\* a statement outside an atomic block writes and commits at once
Exclusive(c) == CanReserve(c) /\ CanCommit(c)

\* messages.<level>(request, text) followed by the redirect or render
Respond(level, text) == [level |-> level, text |-> text]

\* the response of a request that ended in an unhandled exception
ServerError(text) == [level |-> "500", text |-> text]

\* who is logged in on the two browsers, and for whom they manage access;
\* eve has asked for service 1 and waits for the decision, ann has service 1
Logins ==
    [c \in Clients |->
        IF c = "c1" THEN {[user |-> "ann", acting |-> NoUser],
                          [user |-> "mia", acting |-> "eve"]}
        ELSE {[user |-> "eve", acting |-> NoUser],
              [user |-> "bob", acting |-> NoUser]}]

InitProvisioning ==
    /\ pc = "concurrent"
    /\ DataHubUnused
    /\ spec = COST_CENTERS_SPEC /\ headers_in_file = <<>> /\ raw_rows = <<>> /\ result = NoResult
    /\ HelpersUnused
    /\ ReadersUnused
    /\ conn = [c \in Clients |-> Closed]
    /\ task = [c \in Clients |-> Idle(Respond("none", ""))]
    /\ prov = [users |-> Directory,
               requests |-> <<ProvisioningRequest("eve", 1, "need")>>,
               assignments |-> <<ServiceAssignment("ann", 1, "ann")>>]
    /\ session \in [Clients -> UNION {Logins[c] : c \in Clients}]
    /\ \A c \in Clients : session[c] \in Logins[c]
    /\ now = 0

prov_unchanged == <<pc, validate_vars, import_vars, helper_vars, reader_vars>>

\* client c posts a request: the session is the one _get_acting_user leaves
Posted(c, t) ==
    /\ task' = [task EXCEPT ![c] = t]
    /\ session' = [session EXCEPT ![c] = _get_acting_user(prov.users, session[c]).session]
    /\ now' = now + 1
    /\ UNCHANGED <<prov_unchanged, prov, conn>>

\* client c's handler goes on to t without touching the database file
Goes(c, t, connection) ==
    /\ task' = [task EXCEPT ![c] = t]
    /\ conn' = [conn EXCEPT ![c] = connection]
    /\ UNCHANGED <<prov_unchanged, prov, session, now>>

\* client c's handler commits db and goes on to t
Commits(c, t, db) ==
    /\ task' = [task EXCEPT ![c] = t]
    /\ conn' = [conn EXCEPT ![c] = Closed]
    /\ prov' = db
    /\ UNCHANGED <<prov_unchanged, session, now>>

\* "database is locked" escapes the view: the atomic block, if any, rolls back
Locked(c) == Goes(c, Idle(ServerError("database is locked")), Closed)

(***************************************************************************)
(* provisioning_request_create                                             *)
(***************************************************************************)
\* up to the check for an existing assignment
RequestCreate(c) ==
    /\ task[c].step = "idle" /\ now < MaxCalls
    /\ \E service_pk \in DOMAIN Catalog, method \in {"GET", "POST"}, reason \in {"", "need"} :
       \E acting_user \in {_get_acting_user(prov.users, session[c]).user} :
           Posted(c,
               IF ~Catalog[service_pk].is_active
               THEN Idle(Respond("error", "This service is closed and cannot be requested."))
               ELSE IF ~Catalog[service_pk].vendor_is_active
               THEN Idle(Respond("error", "This vendor is closed and cannot be requested."))
               ELSE IF AssignmentsOf(prov, acting_user, service_pk) # {}
               THEN Idle(Respond("info", "Access already exists for this service."))
               ELSE IF method # "POST"
               THEN Idle(Respond("render", "portal/provisioning_request_create.html"))
               ELSE [step |-> "existing_pending", op |-> "request_create", started |-> now + 1,
                     user |-> session[c].user, acting_user |-> acting_user,
                     service |-> service_pk, reason |-> reason])

\* existing_pending = ProvisioningRequest.objects.filter(...).first(), and
\* the test of the reason
ExistingPending(c) ==
    /\ task[c].step = "existing_pending"
    /\ Goes(c, IF PendingOf(prov, task[c].acting_user, task[c].service) # {}
               THEN Idle(Respond("info", "A pending request already exists for this service."))
               ELSE IF task[c].reason = ""
               THEN Idle(Respond("error", "Please provide a short business reason for this request."))
               ELSE [task[c] EXCEPT !.step = "create"],
            conn[c])

\* ProvisioningRequest.objects.create(...) and "except IntegrityError"
CreateRequest(c) ==
    /\ task[c].step = "create" /\ Exclusive(c)
    /\ \E out \in {InsertRequest(prov, ProvisioningRequest(task[c].acting_user, task[c].service,
                                                          task[c].reason))} :
           IF out = IntegrityError
           THEN Goes(c, Idle(Respond("info", "A pending request already exists for this service.")),
                     Closed)
           ELSE Commits(c, Idle(Respond("success", "Request submitted")), out)

CreateRequestLocked(c) ==
    /\ task[c].step = "create" /\ ~Exclusive(c)
    /\ Locked(c)

(***************************************************************************)
(* provisioning_catalog_request_bulk                                       *)
(***************************************************************************)
\* request.POST.getlist("service_ids"), already int()
BulkSelections == {<<>>, <<1>>, <<1, 2>>, <<2, 3>>}

\* up to assigned_ids
RequestBulk(c) ==
    /\ task[c].step = "idle" /\ now < MaxCalls
    /\ \E service_ids \in BulkSelections, reason \in {"", "need"} :
       \E acting_user \in {_get_acting_user(prov.users, session[c]).user} :
           Posted(c,
               IF service_ids = <<>>
               THEN Idle(Respond("error", "No services selected."))
               ELSE [step |-> "pending_ids", op |-> "request_bulk", started |-> now + 1,
                     user |-> session[c].user, acting_user |-> acting_user,
                     service_ids |-> service_ids, reason |-> reason,
                     assigned_ids |-> {s \in Range(service_ids) :
                                          AssignmentsOf(prov, acting_user, s) # {}},
                     queue |-> <<>>, created |-> 0, skipped |-> 0])

\* pending_ids and to_create_ids
PendingIds(c) ==
    /\ task[c].step = "pending_ids"
    /\ \E to_create_ids \in
           {SelectSeq(task[c].service_ids,
                      LAMBDA sid : /\ sid \notin task[c].assigned_ids
                                   /\ PendingOf(prov, task[c].acting_user, sid) = {})} :
           Goes(c, IF to_create_ids = <<>>
                   THEN Idle(Respond("info", "Nothing to request (already assigned or pending)."))
                   ELSE [task[c] EXCEPT !.step = "services", !.queue = to_create_ids],
                conn[c])

\* the ids of a list in ascending order, each once
RECURSIVE Ascending(_)
Ascending(S) ==
    IF S = {} THEN <<>>
    ELSE Bind(CHOOSE x \in S : \A y \in S : x <= y, LAMBDA x : <<x>> \o Ascending(S \ {x}))

\* "with transaction.atomic(): services = Service.objects.filter(id__in=...)"
\* as the loop reads it
SelectServices(c) ==
    /\ task[c].step = "services"
    /\ Goes(c, [task[c] EXCEPT !.step = "bulk_create",
                               !.queue = Ascending(Range(task[c].queue) \cap DOMAIN Catalog)],
            Reading(c))

\* the response of the bulk endpoint after the atomic block
BulkResponse(t) ==
    IF t.created > 0 THEN Respond("success", "Submitted request(s).")
    ELSE IF t.skipped > 0
    THEN Respond("info", "Some services were skipped because they are not available (inactive/closed vendor).")
    ELSE Respond("none", "")

\* one pass of "for svc in services": a closed service is skipped, else
\* ProvisioningRequest.objects.create inside the block; an IntegrityError is
\* caught, and has marked the block for rollback
BulkCreate(c) ==
    /\ task[c].step = "bulk_create" /\ task[c].queue # <<>>
    /\ \E svc \in {Head(task[c].queue)} :
           IF ~Catalog[svc].is_active \/ ~Catalog[svc].vendor_is_active
           THEN Goes(c, [task[c] EXCEPT !.queue = Tail(@), !.skipped = @ + 1], conn[c])
           ELSE IF conn[c].needs_rollback
           THEN Goes(c, Idle(ServerError("TransactionManagementError")), Closed)
           ELSE /\ CanReserve(c)
                /\ \E out \in {InsertRequest(ProvSeen(c),
                                   ProvisioningRequest(task[c].acting_user, svc, task[c].reason))} :
                       IF out = IntegrityError
                       THEN Goes(c, [task[c] EXCEPT !.queue = Tail(@)],
                                 [Writing(c, ProvSeen(c)) EXCEPT !.needs_rollback = TRUE])
                       ELSE Goes(c, [task[c] EXCEPT !.queue = Tail(@), !.created = @ + 1],
                                 Writing(c, out))

BulkCreateLocked(c) ==
    /\ task[c].step = "bulk_create" /\ task[c].queue # <<>>
    /\ Catalog[Head(task[c].queue)].is_active /\ Catalog[Head(task[c].queue)].vendor_is_active
    /\ ~conn[c].needs_rollback /\ ~CanReserve(c)
    /\ Locked(c)

\* the end of the atomic block: commit, or rollback when it was marked
BulkCommit(c) ==
    /\ task[c].step = "bulk_create" /\ task[c].queue = <<>>
    /\ IF conn[c].needs_rollback \/ conn[c].lock # "reserved"
       THEN Goes(c, Idle(BulkResponse(task[c])), Closed)
       ELSE /\ CanCommit(c)
            /\ Commits(c, Idle(BulkResponse(task[c])), conn[c].view)

BulkCommitLocked(c) ==
    /\ task[c].step = "bulk_create" /\ task[c].queue = <<>>
    /\ ~conn[c].needs_rollback /\ conn[c].lock = "reserved" /\ ~CanCommit(c)
    /\ Locked(c)


(***************************************************************************)
(* provisioning_approval_decide and provisioning_approvals_decide_bulk     *)
(***************************************************************************)
\* request.POST["decision"], stripped and lowered
Decisions == {"approve", "reject", "maybe"}

\* the primary keys a decision may name: the requests made, and one more
RequestIds == 1..(Len(prov.requests) + 1)

\* up to the first look at the request, outside the atomic block
Decide(c) ==
    /\ task[c].step = "idle" /\ now < MaxCalls
    /\ \E pk \in RequestIds, method \in {"GET", "POST"}, decision \in Decisions :
           Posted(c,
               IF ~_is_prov_admin(prov.users, session[c].user)
               THEN Idle(Respond("error", "You do not have permission to access approvals."))
               ELSE IF method # "POST"
               THEN Idle(Respond("error", "POST required."))
               ELSE IF decision \notin {"approve", "reject"}
               THEN Idle(Respond("error", "Invalid decision."))
               ELSE IF pk \notin Live(prov.requests)
               THEN Idle(Respond("404", "No ProvisioningRequest matches the given query."))
               ELSE IF prov.requests[pk].status # STATUS_PENDING
               THEN Idle(Respond("warning", "This request is no longer pending."))
               ELSE [step |-> "select", op |-> "decide", started |-> now + 1,
                     user |-> session[c].user, ids |-> {pk}, decision |-> decision,
                     decision_note |-> "", queue |-> <<>>, processed |-> 0])

\* request.POST.getlist("ids"), digits only
IdSelections == {{}, {1}, {1, 2}}

\* up to the atomic block
DecideBulk(c) ==
    /\ task[c].step = "idle" /\ now < MaxCalls
    /\ \E ids \in IdSelections, method \in {"GET", "POST"}, decision \in Decisions,
          decision_note \in {"", "ok"} :
           Posted(c,
               IF method # "POST"
               THEN Idle(Respond("error", "POST required."))
               ELSE IF ~_is_prov_admin(prov.users, session[c].user)
               THEN Idle(Respond("error", "You do not have permission to access approvals."))
               ELSE IF decision \notin {"approve", "reject"}
               THEN Idle(Respond("error", "Invalid decision."))
               ELSE IF ids = {}
               THEN Idle(Respond("warning", "No requests selected."))
               ELSE [step |-> "select", op |-> "decide_bulk", started |-> now + 1,
                     user |-> session[c].user, ids |-> ids, decision |-> decision,
                     decision_note |-> decision_note, queue |-> <<>>, processed |-> 0])

\* the ids of a set in descending order: Meta.ordering ["-created_at", "-id"]
RECURSIVE Descending(_)
Descending(S) ==
    IF S = {} THEN <<>>
    ELSE Bind(CHOOSE x \in S : \A y \in S : x >= y, LAMBDA x : <<x>> \o Descending(S \ {x}))

\* (mutant) the rows are selected whatever their status
PendingAmongAnyStatus(db, ids) == ids \cap Live(db.requests)

\* ProvisioningRequest.objects.filter(id__in=ids, status=STATUS_PENDING); for
\* one id, .get(pk=pk) followed by the test of pr.status
PendingAmong(db, ids) ==
    {pk \in ids \cap Live(db.requests) : db.requests[pk].status = STATUS_PENDING}

\* the first statement of the atomic block.  select_for_update() adds no
\* lock on SQLite.  decide: .get(pk=pk) and the second status test, which
\* returns from inside the block; decide_bulk: the pending rows among ids
SelectForUpdate(c) ==
    /\ task[c].step = "select"
    /\ \E found \in {PendingAmong(prov, task[c].ids)} :
           IF task[c].op = "decide" /\ found = {}
           THEN Goes(c, Idle(Respond("warning", "This request is no longer pending.")), Closed)
           ELSE Goes(c, [task[c] EXCEPT !.step = "save", !.queue = Descending(found)],
                     Reading(c))

\* the status a decision stores
StatusOf(decision) == IF decision = "approve" THEN STATUS_APPROVED ELSE STATUS_REJECTED

\* pr.save(update_fields=[...]) for the request in hand
SaveRequest(c) ==
    /\ task[c].step = "save" /\ task[c].queue # <<>>
    /\ CanReserve(c)
    /\ Goes(c, IF task[c].decision = "approve"
               THEN [task[c] EXCEPT !.step = "get_or_create"]
               ELSE [task[c] EXCEPT !.queue = Tail(@), !.processed = @ + 1],
            Writing(c, SaveDecision(ProvSeen(c), Head(task[c].queue),
                                    StatusOf(task[c].decision), task[c].started,
                                    task[c].user, task[c].decision_note)))

SaveRequestLocked(c) ==
    /\ task[c].step = "save" /\ task[c].queue # <<>>
    /\ ~CanReserve(c)
    /\ Locked(c)

\* ServiceAssignment.objects.get_or_create(user=pr.requester, service=pr.service, ...)
GetOrCreateAssignment(c) ==
    /\ task[c].step = "get_or_create"
    /\ \E pr \in {conn[c].view.requests[Head(task[c].queue)]} :
           Goes(c, [task[c] EXCEPT !.step = "save", !.queue = Tail(@), !.processed = @ + 1],
                Writing(c, get_or_createAssignment(conn[c].view, pr.requester, pr.service,
                                                   task[c].user)))

\* the response of the decision endpoints after the atomic block
DecisionResponse(t) ==
    IF t.op = "decide" THEN Respond("success", "Decision recorded")
    ELSE IF t.processed > 0 THEN Respond("success", "request(s) decided")
    ELSE Respond("warning", "No pending requests matched your selection.")

\* the end of the atomic block
CommitDecision(c) ==
    /\ task[c].step = "save" /\ task[c].queue = <<>>
    /\ IF conn[c].lock # "reserved"
       THEN Goes(c, Idle(DecisionResponse(task[c])), Closed)
       ELSE /\ CanCommit(c)
            /\ Commits(c, Idle(DecisionResponse(task[c])), conn[c].view)

CommitDecisionLocked(c) ==
    /\ task[c].step = "save" /\ task[c].queue = <<>>
    /\ conn[c].lock = "reserved" /\ ~CanCommit(c)
    /\ Locked(c)

(***************************************************************************)
(* provisioning_access_remove and permissions_toggle                       *)
(***************************************************************************)
\* up to "assignment = ServiceAssignment.objects.filter(...).first()"
AccessRemove(c) ==
    /\ task[c].step = "idle" /\ now < MaxCalls
    /\ \E service_pk \in DOMAIN Catalog :
       \E acting_user \in {_get_acting_user(prov.users, session[c]).user} :
           Posted(c,
               IF AssignmentsOf(prov, acting_user, service_pk) = {}
               THEN Idle(Respond("error", "No active assignment found for this service."))
               ELSE [step |-> "delete", op |-> "access_remove", started |-> now + 1,
                     user |-> session[c].user, acting_user |-> acting_user,
                     assignment |-> CHOOSE i \in AssignmentsOf(prov, acting_user, service_pk) : TRUE])

\* the table without row pk
DeleteRow(tbl, pk) == [i \in DOMAIN tbl |-> IF i = pk THEN None_ ELSE tbl[i]]

\* assignment.delete(): DELETE ... WHERE id = pk
DeleteAssignment(c) ==
    /\ task[c].step = "delete" /\ Exclusive(c)
    /\ Commits(c, Idle(Respond("success", "Access removed.")),
               [prov EXCEPT !.assignments = DeleteRow(@, task[c].assignment)])

DeleteAssignmentLocked(c) ==
    /\ task[c].step = "delete" /\ ~Exclusive(c)
    /\ Locked(c)

\* permissions_toggle with assigned=1, up to the get of get_or_create
PermissionsToggle(c) ==
    /\ task[c].step = "idle" /\ now < MaxCalls
    /\ \E user_id \in {"eve"}, service_id \in {1, 2} :
           Posted(c,
               IF AssignmentsOf(prov, user_id, service_id) # {}
               THEN Idle(Respond("json", "assigned"))
               ELSE [step |-> "assign", op |-> "permissions_toggle", started |-> now + 1,
                     user |-> session[c].user, user_id |-> user_id, service_id |-> service_id])

\* the create of get_or_create; on IntegrityError the row is read again
AssignService(c) ==
    /\ task[c].step = "assign" /\ Exclusive(c)
    /\ \E out \in {InsertAssignment(prov, ServiceAssignment(task[c].user_id, task[c].service_id,
                                                            task[c].user))} :
           IF out = IntegrityError
           THEN Goes(c, Idle(Respond("json", "assigned")), Closed)
           ELSE Commits(c, Idle(Respond("json", "assigned")), out)

AssignServiceLocked(c) ==
    /\ task[c].step = "assign" /\ ~Exclusive(c)
    /\ Locked(c)

NextProvisioning ==
    \E c \in Clients :
        \/ RequestCreate(c) \/ ExistingPending(c) \/ CreateRequest(c) \/ CreateRequestLocked(c)
        \/ RequestBulk(c) \/ PendingIds(c) \/ SelectServices(c)
        \/ BulkCreate(c) \/ BulkCreateLocked(c) \/ BulkCommit(c) \/ BulkCommitLocked(c)
        \/ Decide(c) \/ DecideBulk(c) \/ SelectForUpdate(c)
        \/ SaveRequest(c) \/ SaveRequestLocked(c) \/ GetOrCreateAssignment(c)
        \/ CommitDecision(c) \/ CommitDecisionLocked(c)
        \/ AccessRemove(c) \/ DeleteAssignment(c) \/ DeleteAssignmentLocked(c)
        \/ PermissionsToggle(c) \/ AssignService(c) \/ AssignServiceLocked(c)

SpecProvisioning == InitProvisioning /\ [][NextProvisioning]_vars


(***************************************************************************)
(* Pending requests per (requester, service)                               *)
(***************************************************************************)
\* no two pending requests of db share requester and service
AtMostOnePending(db) ==
    \A i \in Live(db.requests) : \A j \in Live(db.requests) :
        (/\ db.requests[i].status = STATUS_PENDING
         /\ db.requests[j].status = STATUS_PENDING
         /\ db.requests[i].requester = db.requests[j].requester
         /\ db.requests[i].service = db.requests[j].service) => i = j

\* the create that client c is about to send would add a second pending
\* request for its (requester, service)
WouldAddSecond(c) ==
    \/ /\ task[c].step = "create"
       /\ PendingOf(prov, task[c].acting_user, task[c].service) # {}
    \/ /\ task[c].step = "bulk_create" /\ task[c].queue # <<>>
       /\ Catalog[Head(task[c].queue)].is_active
       /\ ~conn[c].needs_rollback
       /\ PendingOf(ProvSeen(c), task[c].acting_user, Head(task[c].queue)) # {}

\* C26: in every state, in the tables and in what a connection has written
\* and not yet committed, at most one pending request exists for each
\* (requester, service); a create that would add a second one leaves the
\* requests as they are, and so does every later step of a bulk request
\* one of whose creates was refused.
C26_OnePendingPerPair ==
    [][ /\ AtMostOnePending(prov')
        /\ \A c \in Clients :
               /\ conn'[c].lock = "reserved" => AtMostOnePending(conn'[c].view)
               /\ (WouldAddSecond(c) /\ task'[c] # task[c])
                      => /\ prov'.requests = prov.requests
                         /\ ProvSeen(c).requests
                                = (IF conn'[c].lock = "reserved" THEN conn'[c].view
                                   ELSE prov').requests
               /\ (conn[c].needs_rollback /\ task'[c] # task[c])
                      => prov'.requests = prov.requests ]_vars

\* a create of the bulk endpoint has been refused: the single endpoint
\* committed a pending request for the pair after the bulk endpoint looked
C26_Witness ==
    /\ conn["c1"].needs_rollback
    /\ task["c1"].op = "request_bulk"
    /\ task["c1"].service_ids = <<2, 3>>
    /\ PendingOf(prov, task["c1"].acting_user, 2) # {}
    /\ task["c1"].created = 0
    /\ task["c2"].step = "idle"
    /\ task["c2"].response = Respond("success", "Request submitted")


(***************************************************************************)
(* Decisions                                                               *)
(***************************************************************************)
\* the fields of a request that a decision sets
DecisionOf(row) ==
    [status |-> row.status, decided_by |-> row.decided_by, decided_at |-> row.decided_at]

\* from the tables before to the tables after, a request changes its
\* decision only from pending to approved or rejected, and no request goes
DecidedFromPending(before, after) ==
    \A pk \in DOMAIN before.requests :
        /\ pk \in DOMAIN after.requests
        /\ (before.requests[pk] # None_) => (after.requests[pk] # None_)
        /\ (/\ before.requests[pk] # None_
            /\ DecisionOf(after.requests[pk]) # DecisionOf(before.requests[pk]))
               => /\ before.requests[pk].status = STATUS_PENDING
                  /\ after.requests[pk].status \in {STATUS_APPROVED, STATUS_REJECTED}

\* the requests a decision handler has selected and not yet committed: the
\* table cannot change while the handler holds its read lock
InHand(c) ==
    IF task[c].step \in {"save", "get_or_create"}
    THEN PendingAmong(prov, task[c].ids) ELSE {}

\* clients c and d are deciding the same pending request at the same time
DecidingTheSame(c, d) == c # d /\ InHand(c) \cap InHand(d) # {}

\* client c's handler ends in this step
Ends(c) == task[c].step # "idle" /\ task'[c].step = "idle"

\* the decision client c holds is what the table says of request pk
TookEffect(c, db, pk) ==
    DecisionOf(db.requests[pk])
        = [status |-> StatusOf(task[c].decision), decided_by |-> task[c].user,
           decided_at |-> DateTime(task[c].started)]

\* C27: a request is decided at most once.  Every step, committed or inside
\* a transaction, changes the decision of a request only from pending to
\* approved or rejected, so a decided request keeps its status, decided_by
\* and decided_at.  When two admins decide the same pending request at the
\* same time, neither can commit while the other holds its read lock: the
\* first handler to end is refused with "database is locked" and changes
\* nothing, the other keeps the request in hand, and a handler that ends
\* while no other connection holds a lock has put its decision into effect.
C27_DecidedOnce ==
    [][ /\ DecidedFromPending(prov, prov')
        /\ \A c \in Clients :
               /\ conn'[c].lock = "reserved" => DecidedFromPending(ProvSeen(c), conn'[c].view)
               /\ \A d \in Clients \ {c} :
                      (DecidingTheSame(c, d) /\ Ends(c))
                          => /\ task'[c].response = ServerError("database is locked")
                             /\ prov' = prov
                             /\ task'[d] = task[d] /\ conn'[d] = conn[d]
               /\ (/\ InHand(c) # {} /\ Ends(c)
                   /\ \A d \in Clients \ {c} : conn[d].lock = "none")
                      => /\ task'[c].response.level = "success"
                         /\ \A pk \in InHand(c) : TookEffect(c, prov', pk) ]_vars

\* two admins hold the same pending request, one has saved its decision
C27_Witness ==
    /\ DecidingTheSame("c1", "c2")
    /\ task["c1"].user # task["c2"].user
    /\ conn["c1"].lock = "reserved" /\ conn["c2"].lock = "shared"
    /\ task["c1"].decision # task["c2"].decision

\* one of the two has been refused and the other's decision is in the table
C27_WitnessSettled ==
    /\ task["c2"].step = "idle" /\ task["c2"].response = ServerError("database is locked")
    /\ task["c1"].step = "idle" /\ task["c1"].response = Respond("success", "Decision recorded")
    /\ Len(prov.requests) = 1
    /\ prov.requests[1].status = STATUS_REJECTED /\ prov.requests[1].decided_by = "ann"


(***************************************************************************)
(* Approval and the service assignment                                     *)
(***************************************************************************)
\* no two assignments of db share user and service
AtMostOneAssignment(db) ==
    \A i \in Live(db.assignments) : \A j \in Live(db.assignments) :
        (/\ db.assignments[i].user = db.assignments[j].user
         /\ db.assignments[i].service = db.assignments[j].service) => i = j

\* the requests that are pending before and have the given status after
Moved(before, after, status) ==
    {pk \in Live(before.requests) : /\ before.requests[pk].status = STATUS_PENDING
                                    /\ after.requests[pk].status = status}

\* C28: the commit that shows a request as approved shows, in the same
\* step, exactly one ServiceAssignment for its (requester, service), and no
\* table, committed or not, ever holds two assignments for one pair; the
\* commit that shows a request as rejected leaves the assignments as they
\* were, and so does every statement of a rejecting handler.
C28_ApprovalAssigns ==
    [][ /\ AtMostOneAssignment(prov')
        /\ \A pk \in Moved(prov, prov', STATUS_APPROVED) :
               Cardinality(AssignmentsOf(prov', prov.requests[pk].requester,
                                         prov.requests[pk].service)) = 1
        /\ Moved(prov, prov', STATUS_REJECTED) # {} => prov'.assignments = prov.assignments
        /\ \A c \in Clients :
               /\ conn'[c].lock = "reserved" => AtMostOneAssignment(conn'[c].view)
               /\ (/\ task[c].step \in {"save", "get_or_create"}
                   /\ task[c].decision = "reject"
                   /\ conn'[c].lock = "reserved")
                      => conn'[c].view.assignments = prov.assignments ]_vars

\* an approval found the assignment already there: it was granted by
\* permissions_toggle after the request was made
C28_Witness ==
    /\ Len(prov.requests) = 1
    /\ prov.requests[1].status = STATUS_APPROVED
    /\ \E i \in AssignmentsOf(prov, prov.requests[1].requester, prov.requests[1].service) :
           prov.assignments[i].assigned_by # prov.requests[1].decided_by
    /\ \A c \in Clients : task[c].step = "idle"

\* an approval created the assignment
C28_WitnessCreated ==
    /\ Len(prov.requests) = 1
    /\ prov.requests[1].status = STATUS_APPROVED
    /\ \E i \in Live(prov.assignments) :
           prov.assignments[i] = ServiceAssignment(prov.requests[1].requester,
                                                   prov.requests[1].service,
                                                   prov.requests[1].decided_by)
    /\ \E c \in Clients : task[c].response = Respond("success", "Decision recorded")


(***************************************************************************)
(* "Manage access for": provisioning_acting_set, provisioning_acting_clear *)
(* and the changes an administrator makes to accounts between requests     *)
(***************************************************************************)
\* request.POST["user_id"]: none, two accounts, and the id of no account
ActingSelections == {"", "eve", "mia", "zed"}

\* the response of provisioning_acting_set and the session it leaves
ActingSetOutcome(users, sess, user_id) ==
    IF user_id = ""
    THEN [response |-> Respond("error", "Invalid selection."), session |-> sess]
    ELSE IF user_id \notin DOMAIN users
    THEN [response |-> Respond("404", "No User matches the given query."), session |-> sess]
    ELSE IF ~_can_act_for(users, sess.user, user_id)
    THEN [response |-> Respond("error", "You do not have permission to manage access for this user."),
          session |-> sess]
    ELSE [response |-> Respond("info", "Managing access for: target."),
          session |-> [sess EXCEPT !.acting = user_id]]

provisioning_acting_set(c) ==
    /\ task[c].step = "idle" /\ now < MaxCalls
    /\ \E user_id \in ActingSelections :
       \E out \in {ActingSetOutcome(prov.users, session[c], user_id)} :
           /\ task' = [task EXCEPT ![c] = Idle(out.response)]
           /\ session' = [session EXCEPT ![c] = out.session]
    /\ now' = now + 1
    /\ UNCHANGED <<prov_unchanged, prov, conn>>

provisioning_acting_clear(c) ==
    /\ task[c].step = "idle" /\ now < MaxCalls
    /\ task' = [task EXCEPT ![c] = Idle(Respond("info", "Managing access for: you."))]
    /\ session' = [session EXCEPT ![c].acting = NoUser]
    /\ now' = now + 1
    /\ UNCHANGED <<prov_unchanged, prov, conn>>

\* the tables after user u is deleted: on_delete CASCADE for the requests
\* and assignments of u, SET_NULL for manager, decided_by and assigned_by
UserDeleted(db, u) ==
    [users |-> [v \in DOMAIN db.users \ {u} |->
                   [db.users[v] EXCEPT !.manager = IF @ = u THEN NoUser ELSE @]],
     requests |-> [i \in DOMAIN db.requests |->
                      IF db.requests[i] = None_ THEN None_
                      ELSE IF db.requests[i].requester = u THEN None_
                      ELSE [db.requests[i] EXCEPT !.decided_by = IF @ = u THEN NoUser ELSE @]],
     assignments |-> [i \in DOMAIN db.assignments |->
                         IF db.assignments[i] = None_ THEN None_
                         ELSE IF db.assignments[i].user = u THEN None_
                         ELSE [db.assignments[i] EXCEPT
                                   !.assigned_by = IF @ = u THEN NoUser ELSE @]]]

\* an administrator's write to the accounts; it needs the database file
DirectoryWrite(db) ==
    /\ \A c \in Clients : conn[c].lock = "none"
    /\ prov' = db /\ prov' # prov
    /\ UNCHANGED <<prov_unchanged, conn, task, session, now>>

\* bob leaves the provisioning admins
RevokeAdmin == DirectoryWrite([prov EXCEPT !.users["bob"].groups = {}])

\* eve no longer reports to mia
RemoveManager ==
    /\ "eve" \in DOMAIN prov.users
    /\ DirectoryWrite([prov EXCEPT !.users["eve"].manager = NoUser])

\* eve's account is deleted, while no request is being handled
DeleteUser ==
    /\ "eve" \in DOMAIN prov.users
    /\ \A c \in Clients : task[c].step = "idle"
    /\ DirectoryWrite(UserDeleted(prov, "eve"))

\* one browser posts, the other stays logged in as eve: the claim is about
\* one session after another, not about two at once
ActingClients == {"c1"}

\* mia is logged in and manages access for eve; or bob is logged in, and
\* may be managing access for eve already
ActingLogins ==
    [c \in Clients |->
        IF c \in ActingClients
        THEN {[user |-> "mia", acting |-> "eve"],
              [user |-> "bob", acting |-> NoUser],
              [user |-> "bob", acting |-> "eve"]}
        ELSE {[user |-> "ann", acting |-> NoUser]}]

InitActing ==
    /\ pc = "concurrent"
    /\ DataHubUnused
    /\ spec = COST_CENTERS_SPEC /\ headers_in_file = <<>> /\ raw_rows = <<>> /\ result = NoResult
    /\ HelpersUnused
    /\ ReadersUnused
    /\ conn = [c \in Clients |-> Closed]
    /\ task = [c \in Clients |-> Idle(Respond("none", ""))]
    /\ prov = [users |-> Directory, requests |-> <<>>,
               assignments |-> <<ServiceAssignment("eve", 1, "ann"),
                                 ServiceAssignment("mia", 1, "ann")>>]
    /\ session \in [Clients -> UNION {ActingLogins[c] : c \in Clients}]
    /\ \A c \in Clients : session[c] \in ActingLogins[c]
    /\ now = 0

NextActing ==
    \/ \E c \in ActingClients :
        \/ provisioning_acting_set(c) \/ provisioning_acting_clear(c)
        \/ RequestCreate(c) \/ ExistingPending(c) \/ CreateRequest(c)
        \/ RequestBulk(c) \/ PendingIds(c) \/ SelectServices(c)
        \/ BulkCreate(c) \/ BulkCommit(c)
        \/ AccessRemove(c) \/ DeleteAssignment(c)
    \/ RevokeAdmin \/ RemoveManager \/ DeleteUser

SpecActing == InitActing /\ [][NextActing]_vars

\* u may act for t as the claim has it: t is an account, and u is a
\* provisioning admin or the manager t reports to
MayActFor(users, u, t) ==
    /\ t \in DOMAIN users
    /\ \/ _is_prov_admin(users, u)
       \/ users[t].manager = u

\* the acting id of client c's session is stale
Stale(c) ==
    /\ session[c].acting # NoUser
    /\ session[c].acting # session[c].user
    /\ ~MayActFor(prov.users, session[c].user, session[c].acting)

\* client c posts to an endpoint that calls _get_acting_user
TakesActingUser(c) ==
    /\ task[c].step = "idle" /\ task'[c] # task[c]
    /\ task'[c].step # "idle" \/ task'[c].response.text \notin
           {"Invalid selection.", "No User matches the given query.",
            "You do not have permission to manage access for this user.",
            "Managing access for: target.", "Managing access for: you."}

\* the rows of tbl' that tbl does not have
Added(before, after) == {i \in Live(after) : i \notin DOMAIN before}

\* the rows of tbl that tbl' no longer has
Removed(before, after) == {i \in Live(before) : after[i] = None_}

\* C29: the user a provisioning handler works for is the logged-in user or
\* a user the logged-in user may act for when the handler starts; a stale
\* acting id is cleared from the session and the logged-in user is used;
\* and every request a handler creates and every assignment it removes is
\* one of the user it works for.
C29_ActsOnlyWhereAllowed ==
    [][ \A c \in Clients :
            /\ TakesActingUser(c)
                   => /\ Stale(c) => /\ session'[c].acting = NoUser
                                     /\ task'[c].step # "idle"
                                            => task'[c].acting_user = session[c].user
                      /\ ~Stale(c) => session'[c] = session[c]
                      /\ task'[c].step # "idle"
                             => \/ task'[c].acting_user = session[c].user
                                \/ MayActFor(prov.users, session[c].user, task'[c].acting_user)
            /\ (task[c].step # "idle" /\ task'[c] # task[c])
                   => /\ \A i \in Added(ProvSeen(c).requests,
                                        (IF conn'[c].lock = "reserved" THEN conn'[c].view
                                         ELSE prov').requests) :
                             (IF conn'[c].lock = "reserved" THEN conn'[c].view
                              ELSE prov').requests[i].requester = task[c].acting_user
                      /\ \A i \in Removed(prov.assignments, prov'.assignments) :
                             prov.assignments[i].user = task[c].acting_user
                      /\ task[c].user = session[c].user ]_vars

\* mia, who managed access for eve until eve stopped reporting to her, has
\* posted her first request: the session key is gone and the request about
\* to be created is mia's own
C29_Witness ==
    /\ "eve" \in DOMAIN prov.users
    /\ prov.users["eve"].manager = NoUser
    /\ now = 1
    /\ session["c1"] = [user |-> "mia", acting |-> NoUser]
    /\ task["c1"].step = "create"
    /\ task["c1"].user = "mia" /\ task["c1"].acting_user = "mia"

====
